---------------------------- MODULE Spec2Model ----------------------------
(***************************************************************************)
(* A model of the AI-Agent service (src/app/main.py, src/app/database.py,  *)
(* src/app/ollama_client.py): the /query and /health handlers, the         *)
(* dependency probes, and the text functions they apply to the model       *)
(* service's replies.  Text is modelled character by character: a Python   *)
(* str is a TLA+ string, and every regular expression of the source is an  *)
(* operator that matches as the regular expression does.                   *)
(***************************************************************************)
EXTENDS Integers, Sequences, FiniteSets, Bags, TLC

(***************************************************************************)
(* Python str primitives.                                                  *)
(***************************************************************************)
\* s[i], and "" outside the text
Ch(s, i) == IF 1 <= i /\ i <= Len(s) THEN SubSeq(s, i, i) ELSE ""

\* TLC evaluates a definition where it is first used; Ready(v) names a text
\* that must be computed before the next step reads it.
Ready(v) == v = v

From(s, i) == SubSeq(s, i, Len(s))

\* F(v), with v computed once however often F reads it
With(v, F(_)) == F(v)

CharsOf(s) == { Ch(s, i) : i \in 1..Len(s) }

LowerLetters == "abcdefghijklmnopqrstuvwxyz"

UpperLetters == "ABCDEFGHIJKLMNOPQRSTUVWXYZ"

DigitChars == "0123456789"

LowerSet == CharsOf(LowerLetters)

UpperSet == CharsOf(UpperLetters)

DigitSet == CharsOf(DigitChars)

\* \s of the re module, on the characters the replies use
IsSpace(c) == c \in {" ", "\n", "\t", "\r"}

IsDigit(c) == c \in DigitSet

\* \w of the re module
IsWord(c) == c \in LowerSet \/ c \in UpperSet \/ c \in DigitSet \/ c = "_"

UpperCh(c) ==
    IF c \in LowerSet
    THEN Ch(UpperLetters, CHOOSE i \in 1..26 : Ch(LowerLetters, i) = c)
    ELSE c

\* str.upper(), one character at a time (by halves, to keep the nesting low)
RECURSIVE Upper(_)
Upper(s) ==
    IF Len(s) = 0 THEN ""
    ELSE IF Len(s) = 1 THEN UpperCh(s)
    ELSE Upper(SubSeq(s, 1, Len(s) \div 2))
            \o Upper(SubSeq(s, Len(s) \div 2 + 1, Len(s)))

\* the text at position i starts with lit (case-sensitive)
At(s, i, lit) ==
    /\ i >= 1
    /\ i + Len(lit) - 1 <= Len(s)
    /\ SubSeq(s, i, i + Len(lit) - 1) = lit

\* the text at position i starts with lit, ignoring case (re.IGNORECASE);
\* lit is given in upper case
AtCI(s, i, lit) ==
    /\ i >= 1
    /\ i + Len(lit) - 1 <= Len(s)
    /\ Upper(SubSeq(s, i, i + Len(lit) - 1)) = lit

MinOf(S) == CHOOSE i \in S : \A j \in S : i <= j

MaxOf(S) == CHOOSE i \in S : \A j \in S : i >= j

\* lit in s
Contains(s, lit) == \E i \in 1..(Len(s) - Len(lit) + 1) : At(s, i, lit)

\* s.find(lit, from): the first position >= from where lit stands, 0 if none
Find(s, lit, from) ==
    LET hits == { i \in from..(Len(s) - Len(lit) + 1) : At(s, i, lit) }
    IN  IF hits = {} THEN 0 ELSE MinOf(hits)

\* the first position >= i that holds no whitespace (Len(s)+1 at the end): \s*
SkipSpace(s, i) ==
    IF i > Len(s) THEN i
    ELSE MinOf({ j \in i..(Len(s) + 1) : j > Len(s) \/ ~IsSpace(Ch(s, j)) })

\* the first position >= i that holds no digit: \d*
SkipDigits(s, i) ==
    IF i > Len(s) THEN i
    ELSE MinOf({ j \in i..(Len(s) + 1) : j > Len(s) \/ ~IsDigit(Ch(s, j)) })

\* the first position >= i that holds no word character: \w*
SkipWord(s, i) ==
    IF i > Len(s) THEN i
    ELSE MinOf({ j \in i..(Len(s) + 1) : j > Len(s) \/ ~IsWord(Ch(s, j)) })

\* \b between positions i-1 and i
Boundary(s, i) ==
    LET before == i >= 2 /\ i - 1 <= Len(s) /\ IsWord(Ch(s, i - 1))
        after  == i >= 1 /\ i <= Len(s) /\ IsWord(Ch(s, i))
    IN  before # after

\* the last position <= j that holds no whitespace (0 if none)
BackSpace(s, j) ==
    IF j < 1 THEN j
    ELSE MaxOf({ k \in 0..j : k = 0 \/ ~IsSpace(Ch(s, k)) })

\* str.strip()
Strip(s) == SubSeq(s, SkipSpace(s, 1), BackSpace(s, Len(s)))

(***************************************************************************)
(* re.sub and str.replace: m[i] is the end (exclusive) of the match that   *)
(* starts at i, 0 when the pattern does not match there; rep[i] is the     *)
(* text that replaces it.  Matches are taken left to right and do not      *)
(* overlap; no pattern of the source matches the empty string.             *)
(***************************************************************************)
RECURSIVE SubFrom(_, _, _, _)
SubFrom(s, m, rep, i) ==
    LET hits == { j \in i..Len(s) : m[j] > j }
    IN  IF hits = {} THEN From(s, i)
        ELSE SubSeq(s, i, MinOf(hits) - 1) \o rep[MinOf(hits)]
                \o SubFrom(s, m, rep, m[MinOf(hits)])

ReSub(s, m, rep) == IF Ready(s) THEN SubFrom(s, m, rep, 1) ELSE s

\* str.replace(old, new)
Replace(s, old, new) ==
    ReSub(s, [i \in 1..Len(s) |-> IF At(s, i, old) THEN i + Len(old) ELSE 0],
             [i \in 1..Len(s) |-> new])

\* re.search: the first position where m matches, 0 if none
FirstMatch(s, m) ==
    LET hits == { i \in 1..Len(s) : m[i] > i }
    IN  IF hits = {} THEN 0 ELSE MinOf(hits)

(***************************************************************************)
(* clean_sql_syntax, src/app/main.py lines 21-222.                         *)
(* The backtick (U+0060) cannot stand in a TLA+ string; the model writes   *)
(* it as BQ.                                                               *)
(***************************************************************************)
BQ == "~"

Fence == BQ \o BQ \o BQ

\* r'```sql\s*' with re.IGNORECASE (line 30)
FenceSqlEnd(s, i) ==
    IF At(s, i, Fence) /\ AtCI(s, i + 3, "SQL") THEN SkipSpace(s, i + 6) ELSE 0

\* r'```\s*' (line 31)
FenceEnd(s, i) == IF At(s, i, Fence) THEN SkipSpace(s, i + 3) ELSE 0

\* r'^\s*sql\s*' with re.IGNORECASE, no re.MULTILINE (line 32)
StraySqlEnd(s, i) ==
    LET j == SkipSpace(s, 1)
    IN  IF i = 1 /\ AtCI(s, j, "SQL") THEN SkipSpace(s, j + 3) ELSE 0

\* r'`([^`]+)`' (line 35): the closing backtick of the one at i, 0 if none
\* or if nothing stands between the two
QuotedClose(s, i) ==
    LET j == Find(s, BQ, i + 1)
    IN  IF Ch(s, i) = BQ /\ j > i + 1 THEN j ELSE 0

\* line 30
RemoveFenceSql(s) ==
    ReSub(s, [i \in 1..Len(s) |-> FenceSqlEnd(s, i)], [i \in 1..Len(s) |-> ""])

\* line 31
RemoveFence(s) ==
    ReSub(s, [i \in 1..Len(s) |-> FenceEnd(s, i)], [i \in 1..Len(s) |-> ""])

\* line 32
RemoveStraySql(s) ==
    ReSub(s, [i \in 1..Len(s) |-> StraySqlEnd(s, i)], [i \in 1..Len(s) |-> ""])

\* lines 30-32
RemoveMarkdown(s) == RemoveStraySql(RemoveFence(RemoveFenceSql(s)))

\* line 35: r'\1' for every quoted name
Unquote(s) ==
    ReSub(s, [i \in 1..Len(s) |->
                IF QuotedClose(s, i) > 0 THEN QuotedClose(s, i) + 1 ELSE 0],
             [i \in 1..Len(s) |-> SubSeq(s, i + 1, QuotedClose(s, i) - 1)])

\* lines 35-36
RemoveBackticks(s) == Replace(Unquote(s), BQ, "")

\* the replacements dictionary, in insertion order (lines 39-48)
ReplaceFunctions(s) ==
    Replace(Replace(Replace(Replace(Replace(s,
        "DATETIME()", "GETDATE()"),
        "NOW()", "GETDATE()"),
        "CURDATE()", "CAST(GETDATE() AS DATE)"),
        "LENGTH(", "LEN("),
        "SUBSTR(", "SUBSTRING(")

\* r'(?:(\d+),\s*)?(\d+)\b' at position k: <<offset, limit, end>>, where offset
\* is <<>> for None; <<>> when it does not match.  The optional group is tried
\* first, as the regular expression engine tries it.
LimitTail(s, k) ==
    LET d1 == SkipDigits(s, k)
        k2 == SkipSpace(s, d1 + 1)
        d2 == SkipDigits(s, k2)
    IN  IF d1 > k /\ Ch(s, d1) = "," /\ d2 > k2 /\ Boundary(s, d2)
        THEN << <<SubSeq(s, k, d1 - 1)>>, SubSeq(s, k2, d2 - 1), d2 >>
        ELSE IF d1 > k /\ Boundary(s, d1)
        THEN << <<>>, SubSeq(s, k, d1 - 1), d1 >>
        ELSE <<>>

\* r'\bLIMIT\s+(?:(\d+),\s*)?(\d+)\b' with re.IGNORECASE at i (line 51)
LimitAt(s, i) ==
    LET k == SkipSpace(s, i + 5)
    IN  IF AtCI(s, i, "LIMIT") /\ Boundary(s, i) /\ k > i + 5
        THEN LimitTail(s, k) ELSE <<>>

\* r'\s+LIMIT\s+(?:\d+,\s*)?\d+\b' with re.IGNORECASE at i (line 57)
LimitClauseEnd(s, i) ==
    LET j == SkipSpace(s, i)
        k == SkipSpace(s, j + 5)
    IN  IF j > i /\ AtCI(s, j, "LIMIT") /\ k > j + 5 /\ LimitTail(s, k) # <<>>
        THEN LimitTail(s, k)[3] ELSE 0

\* r'\bSELECT\b' with re.IGNORECASE at i (lines 61, 64)
SelectEnd(s, i) ==
    IF AtCI(s, i, "SELECT") /\ Boundary(s, i) /\ Boundary(s, i + 6)
    THEN i + 6 ELSE 0

\* line 50: where re.search finds the LIMIT clause, 0 if nowhere
FirstLimit(s) ==
    FirstMatch(s, [i \in 1..Len(s) |->
                     IF LimitAt(s, i) # <<>> THEN LimitAt(s, i)[3] ELSE 0])

\* line 57
RemoveLimit(s) ==
    ReSub(s, [i \in 1..Len(s) |-> LimitClauseEnd(s, i)], [i \in 1..Len(s) |-> ""])

\* lines 61 and 64
InsertTop(s, limit_num) ==
    ReSub(s, [i \in 1..Len(s) |-> SelectEnd(s, i)],
             [i \in 1..Len(s) |-> "SELECT TOP " \o limit_num])

\* lines 50-65: both branches of the offset test insert the same TOP
LimitToTop(s) ==
    IF FirstLimit(s) = 0 THEN s
    ELSE InsertTop(RemoveLimit(s), LimitAt(s, FirstLimit(s))[2])

\* line 68
numeric_columns ==
    << "PRD_QTY", "QTY_REQ", "QTY_RECEIVED", "PD_REQ", "REQ_PART",
       "STOCK_MAIN", "STOCK_NG", "STOCK_SAFETY" >>

\* the first position >= i that holds none of > < = ! : [><=!]*
SkipOps(s, i) ==
    IF i > Len(s) THEN i
    ELSE MinOf({ j \in i..(Len(s) + 1) :
                   j > Len(s) \/ Ch(s, j) \notin {">", "<", "=", "!"} })

\* rf'\b{func}\({col}\)' with re.IGNORECASE (lines 74-77)
CastAggregate(s, func, col) ==
    LET pat == func \o "(" \o col \o ")"
    IN  ReSub(s, [i \in 1..Len(s) |->
                    IF AtCI(s, i, pat) /\ Boundary(s, i) THEN i + Len(pat) ELSE 0],
                 [i \in 1..Len(s) |-> func \o "(CAST(" \o col \o " AS FLOAT))"])

\* rf'\b{col}\s*([><=!]+)\s*(\d+)' at i: <<operator, digits, end>> (line 80)
CompareNumberAt(s, i, col) ==
    LET j == SkipSpace(s, i + Len(col))
        o == SkipOps(s, j)
        k == SkipSpace(s, o)
        d == SkipDigits(s, k)
    IN  IF AtCI(s, i, col) /\ Boundary(s, i) /\ o > j /\ d > k
        THEN << SubSeq(s, j, o - 1), SubSeq(s, k, d - 1), d >> ELSE <<>>

CastCompareNumber(s, col) ==
    ReSub(s, [i \in 1..Len(s) |->
                IF CompareNumberAt(s, i, col) # <<>>
                THEN CompareNumberAt(s, i, col)[3] ELSE 0],
             [i \in 1..Len(s) |->
                "CAST(" \o col \o " AS FLOAT) " \o CompareNumberAt(s, i, col)[1]
                    \o " " \o CompareNumberAt(s, i, col)[2]])

\* rf'\b{col}\s*([><=!]+)\s*{col2}\b' at i: <<operator, end>> (line 85)
CompareColumnAt(s, i, col, col2) ==
    LET j == SkipSpace(s, i + Len(col))
        o == SkipOps(s, j)
        k == SkipSpace(s, o)
    IN  IF AtCI(s, i, col) /\ Boundary(s, i) /\ o > j /\ AtCI(s, k, col2)
           /\ Boundary(s, k + Len(col2))
        THEN << SubSeq(s, j, o - 1), k + Len(col2) >> ELSE <<>>

CastCompareColumn(s, col, col2) ==
    ReSub(s, [i \in 1..Len(s) |->
                IF CompareColumnAt(s, i, col, col2) # <<>>
                THEN CompareColumnAt(s, i, col, col2)[2] ELSE 0],
             [i \in 1..Len(s) |->
                "CAST(" \o col \o " AS FLOAT) " \o CompareColumnAt(s, i, col, col2)[1]
                    \o " CAST(" \o col2 \o " AS FLOAT)"])

\* the inner loop over col2 (lines 83-86), from the n-th column on
RECURSIVE CastColumnPairs(_, _, _)
CastColumnPairs(s, c, n) ==
    IF n > Len(numeric_columns) \/ ~Ready(s) THEN s
    ELSE CastColumnPairs(
             IF n # c
             THEN CastCompareColumn(s, numeric_columns[c], numeric_columns[n])
             ELSE s,
             c, n + 1)

\* one round of the loop over col (lines 72-86)
\* lines 73-77: the loop over SUM, AVG, MAX, MIN
CastAggregates(s, col) ==
    CastAggregate(CastAggregate(CastAggregate(CastAggregate(s,
        "SUM", col), "AVG", col), "MAX", col), "MIN", col)

CastColumn(s, c) ==
    CastColumnPairs(
        CastCompareNumber(CastAggregates(s, numeric_columns[c]), numeric_columns[c]),
        c, 1)

RECURSIVE CastColumns(_, _)
CastColumns(s, c) ==
    IF c > Len(numeric_columns) \/ ~Ready(s) THEN s
    ELSE CastColumns(CastColumn(s, c), c + 1)

(***************************************************************************)
(* The arithmetic fix for statements with GROUP BY, lines 88-123.  A match *)
(* is a tuple of positions, <<>> when the pattern does not match; an end   *)
(* is exclusive.                                                           *)
(***************************************************************************)
\* re.findall / re.finditer: the number of matches of m from i on, taken left
\* to right without overlap
RECURSIVE CountFrom(_, _, _)
CountFrom(s, m, i) ==
    LET hits == { j \in i..Len(s) : m[j] > j }
    IN  IF hits = {} THEN 0 ELSE 1 + CountFrom(s, m, m[MinOf(hits)])

NoNewline(s, a, e) == \A j \in a..(e - 1) : Ch(s, j) # "\n"

\* (SUM|AVG|COUNT|MAX|MIN) with re.IGNORECASE at i: the length of the name, 0
\* if none stands there
AggLenAt(s, i) ==
    IF AtCI(s, i, "SUM") \/ AtCI(s, i, "AVG") \/ AtCI(s, i, "MAX")
       \/ AtCI(s, i, "MIN") THEN 3
    ELSE IF AtCI(s, i, "COUNT") THEN 5 ELSE 0

IsArithmetic(c) == c \in {"-", "+", "*", "/"}

\* r'\s+FROM' with re.IGNORECASE at g
FromAfterSpace(s, g) == IsSpace(Ch(s, g)) /\ AtCI(s, SkipSpace(s, g), "FROM")

\* r'SELECT\s+(.*?)\s+FROM' with the SELECT at i and the first character
\* after its whitespace at k: <<start, end>> of group 1.  When no FROM follows
\* a later whitespace, \s+ gives one character back and the group is empty.
SelectPartFrom(s, i, k) ==
    IF \E g \in k..Len(s) : FromAfterSpace(s, g)
    THEN << k, MinOf({ g \in k..Len(s) : FromAfterSpace(s, g) }) >>
    ELSE IF k >= i + 8 /\ AtCI(s, k, "FROM") THEN << k - 1, k - 1 >>
    ELSE <<>>

SelectPartAt(s, i) ==
    IF AtCI(s, i, "SELECT") /\ SkipSpace(s, i + 6) > i + 6
    THEN SelectPartFrom(s, i, SkipSpace(s, i + 6)) ELSE <<>>

\* re.search(r'SELECT\s+(.*?)\s+FROM', sql, re.IGNORECASE | re.DOTALL)
\* (lines 93 and 166): <<start, end>> of group 1, <<>> for None
SelectPart(s) ==
    IF \E i \in 1..Len(s) : SelectPartAt(s, i) # <<>>
    THEN SelectPartAt(s, MinOf({ i \in 1..Len(s) : SelectPartAt(s, i) # <<>> }))
    ELSE <<>>

\* the start of the alias of r'\s+AS\s+(\w+)' at e
AliasStart(s, e) == SkipSpace(s, SkipSpace(s, e) + 2)

\* r'\s+AS\s+(\w+)' with re.IGNORECASE at e: the end of the alias, 0 if the
\* pattern does not match
AsAliasEnd(s, e) ==
    IF /\ IsSpace(Ch(s, e)) /\ AtCI(s, SkipSpace(s, e), "AS")
       /\ IsSpace(Ch(s, SkipSpace(s, e) + 2)) /\ IsWord(Ch(s, AliasStart(s, e)))
    THEN SkipWord(s, AliasStart(s, e)) ELSE 0

\* r'\([^)]+\)' at b: the position of the closing parenthesis, 0 if no match
ParenClose(s, b) ==
    IF Ch(s, b) = "(" /\ Find(s, ")", b + 1) > b + 1 THEN Find(s, ")", b + 1) ELSE 0

\* r'.*?\s+AS\s+(\w+)' from x on: <<group 0 end, expression end, alias start>>
MixedTail(c, x) ==
    IF \E e \in x..Len(c) : NoNewline(c, x, e) /\ AsAliasEnd(c, e) > 0
    THEN << AsAliasEnd(c, MinOf({ e \in x..Len(c) :
                                    NoNewline(c, x, e) /\ AsAliasEnd(c, e) > 0 })),
            MinOf({ e \in x..Len(c) : NoNewline(c, x, e) /\ AsAliasEnd(c, e) > 0 }),
            AliasStart(c, MinOf({ e \in x..Len(c) :
                                    NoNewline(c, x, e) /\ AsAliasEnd(c, e) > 0 })) >>
    ELSE <<>>

\* r'(SUM|AVG|COUNT|MAX|MIN)\s*\([^)]+\).*?\s+AS\s+(\w+)' at f
MixedAggregate(c, f) ==
    IF AggLenAt(c, f) > 0 /\ ParenClose(c, SkipSpace(c, f + AggLenAt(c, f))) > 0
    THEN MixedTail(c, ParenClose(c, SkipSpace(c, f + AggLenAt(c, f))) + 1)
    ELSE <<>>

\* r'\s*[-+*/]\s*(SUM|...' at o
MixedOperator(c, o) ==
    IF IsArithmetic(Ch(c, SkipSpace(c, o)))
    THEN MixedAggregate(c, SkipSpace(c, SkipSpace(c, o) + 1)) ELSE <<>>

\* r'CAST\s*\([^)]+\)...' at a
MixedCast(c, a) ==
    IF AtCI(c, a, "CAST") /\ ParenClose(c, SkipSpace(c, a + 4)) > 0
    THEN MixedOperator(c, ParenClose(c, SkipSpace(c, a + 4)) + 1) ELSE <<>>

\* mixed_pattern (line 98) at i:
\* <<group 0 end, expression start, expression end, alias start>>
MixedAt(c, i) ==
    IF AtCI(c, i, "PART_NO") /\ Ch(c, i + 7) = ","
       /\ MixedCast(c, SkipSpace(c, i + 8)) # <<>>
    THEN << MixedCast(c, SkipSpace(c, i + 8))[1], SkipSpace(c, i + 8),
            MixedCast(c, SkipSpace(c, i + 8))[2],
            MixedCast(c, SkipSpace(c, i + 8))[3] >>
    ELSE <<>>

\* [A-Za-z_]
IsIdStart(c) == c \in LowerSet \/ c \in UpperSet \/ c = "_"

\* r'CAST\s*\(\s*([A-Za-z_][A-Za-z0-9_]*)' with re.IGNORECASE at j:
\* <<start, end>> of the name
CastIdAt(s, j) ==
    IF /\ AtCI(s, j, "CAST") /\ Ch(s, SkipSpace(s, j + 4)) = "("
       /\ IsIdStart(Ch(s, SkipSpace(s, SkipSpace(s, j + 4) + 1)))
    THEN << SkipSpace(s, SkipSpace(s, j + 4) + 1),
            SkipWord(s, SkipSpace(s, SkipSpace(s, j + 4) + 1)) >>
    ELSE <<>>

\* r'\)\s*([-+*/])\s*(SUM|AVG|COUNT|MAX|MIN)' at z:
\* <<operator position, function start, function end>>
AfterFloat(s, z) ==
    IF /\ Ch(s, z) = ")" /\ IsArithmetic(Ch(s, SkipSpace(s, z + 1)))
       /\ AggLenAt(s, SkipSpace(s, SkipSpace(s, z + 1) + 1)) > 0
    THEN << SkipSpace(s, z + 1), SkipSpace(s, SkipSpace(s, z + 1) + 1),
            SkipSpace(s, SkipSpace(s, z + 1) + 1)
                + AggLenAt(s, SkipSpace(s, SkipSpace(s, z + 1) + 1)) >>
    ELSE <<>>

\* r'\s+AS\s+FLOAT\s*\)...' at w
AsFloat(s, w) ==
    IF /\ IsSpace(Ch(s, w)) /\ AtCI(s, SkipSpace(s, w), "AS")
       /\ IsSpace(Ch(s, SkipSpace(s, w) + 2)) /\ AtCI(s, AliasStart(s, w), "FLOAT")
    THEN AfterFloat(s, SkipSpace(s, AliasStart(s, w) + 5)) ELSE <<>>

\* the pattern of line 103 at j:
\* <<name start, name end, operator position, function start, end>>
CastSumAt(s, j) ==
    IF CastIdAt(s, j) # <<>> /\ AsFloat(s, CastIdAt(s, j)[2]) # <<>>
    THEN CastIdAt(s, j) \o AsFloat(s, CastIdAt(s, j)[2]) ELSE <<>>

\* lines 103-104: CAST(col AS FLOAT) - SUM becomes SUM(CAST(col AS FLOAT)) - SUM
CastToSum(s) ==
    ReSub(s, [j \in 1..Len(s) |->
                IF CastSumAt(s, j) # <<>> THEN CastSumAt(s, j)[5] ELSE 0],
             [j \in 1..Len(s) |->
                "SUM(CAST(" \o SubSeq(s, CastSumAt(s, j)[1], CastSumAt(s, j)[2] - 1)
                    \o " AS FLOAT)) " \o Ch(s, CastSumAt(s, j)[3]) \o " "
                    \o SubSeq(s, CastSumAt(s, j)[4], CastSumAt(s, j)[5] - 1)])

\* line 105, for the match m of mixed_pattern at i in select_content c
FixMixedAt(sql, c, i, m) ==
    Replace(sql, SubSeq(c, i, m[1] - 1),
            "PART_NO, " \o CastToSum(SubSeq(c, m[2], m[3] - 1)) \o " AS "
                \o SubSeq(c, m[4], m[1] - 1))

\* lines 98-106
FixMixed(sql, c) ==
    IF \E i \in 1..Len(c) : MixedAt(c, i) # <<>>
    THEN FixMixedAt(sql, c, MinOf({ i \in 1..Len(c) : MixedAt(c, i) # <<>> }),
                    MixedAt(c, MinOf({ i \in 1..Len(c) : MixedAt(c, i) # <<>> })))
    ELSE sql

\* r'CAST\s*\([^)]+\)' with re.IGNORECASE at j: the end, 0 if no match
CastCallEnd(c, j) ==
    IF AtCI(c, j, "CAST") /\ ParenClose(c, SkipSpace(c, j + 4)) > 0
    THEN ParenClose(c, SkipSpace(c, j + 4)) + 1 ELSE 0

\* r'\b(SUM|AVG|COUNT|MAX|MIN)\s*\(' with re.IGNORECASE at j
AggCallEnd(c, j) ==
    IF /\ Boundary(c, j) /\ AggLenAt(c, j) > 0
       /\ Ch(c, SkipSpace(c, j + AggLenAt(c, j))) = "("
    THEN SkipSpace(c, j + AggLenAt(c, j)) + 1 ELSE 0

\* line 109
cast_count(c) == CountFrom(c, [j \in 1..Len(c) |-> CastCallEnd(c, j)], 1)

\* line 110
agg_count(c) == CountFrom(c, [j \in 1..Len(c) |-> AggCallEnd(c, j)], 1)

\* r',\s*(.+?)\s+AS\s+(\w+)' after the PART_NO at i: the <<start, end>> of
\* group 2 that can be completed to a match
ExprCands(c, i) ==
    { ae \in ((i + 8)..SkipSpace(c, i + 8)) \X ((i + 9)..Len(c)) :
        /\ ae[2] > ae[1] /\ NoNewline(c, ae[1], ae[2]) /\ AsAliasEnd(c, ae[2]) > 0 }

\* of these the one the engine finds: \s* as long and .+? as short as can be
ExprStart(c, i) == MaxOf({ ae[1] : ae \in ExprCands(c, i) })

ExprEnd(c, i) == MinOf({ ae[2] : ae \in { x \in ExprCands(c, i) : x[1] = ExprStart(c, i) } })

\* expr_match (line 116) at i:
\* <<group 0 end, expression start, expression end, alias start>>
ExprAt(c, i) ==
    IF AtCI(c, i, "PART_NO") /\ Ch(c, i + 7) = "," /\ ExprCands(c, i) # {}
    THEN << AsAliasEnd(c, ExprEnd(c, i)), ExprStart(c, i), ExprEnd(c, i),
            AliasStart(c, ExprEnd(c, i)) >>
    ELSE <<>>

\* lines 117-121, for the match m of expr_match at i in select_content c
WrapAt(sql, c, i, m) ==
    Replace(sql, SubSeq(c, i, m[1] - 1),
            "PART_NO, SUM(" \o SubSeq(c, m[2], m[3] - 1) \o ") AS "
                \o SubSeq(c, m[4], m[1] - 1))

\* lines 114-121
WrapInSum(sql, c) ==
    IF /\ cast_count(c) >= 2 /\ agg_count(c) = 0
       /\ \E i \in 1..Len(c) : ExprAt(c, i) # <<>>
    THEN WrapAt(sql, c, MinOf({ i \in 1..Len(c) : ExprAt(c, i) # <<>> }),
                ExprAt(c, MinOf({ i \in 1..Len(c) : ExprAt(c, i) # <<>> })))
    ELSE sql

SelectContent(s) == SubSeq(s, SelectPart(s)[1], SelectPart(s)[2] - 1)

HasGroupBy(sql) == Contains(Upper(sql), "GROUP BY")

\* lines 91-121
GroupByArithmetic(sql) ==
    IF HasGroupBy(sql) /\ SelectPart(sql) # <<>>
    THEN WrapInSum(FixMixed(sql, SelectContent(sql)), SelectContent(sql))
    ELSE sql

(***************************************************************************)
(* The GROUP BY column fix, lines 125-183.                                 *)
(***************************************************************************)
\* re.findall / re.finditer: the starts of the matches of m from i on, taken
\* left to right without overlap
RECURSIVE StartsFrom(_, _, _)
StartsFrom(s, m, i) ==
    LET hits == { j \in i..Len(s) : m[j] > j }
    IN  IF hits = {} THEN {}
        ELSE {MinOf(hits)} \cup StartsFrom(s, m, m[MinOf(hits)])

\* r'CAST\s*\(\s*([A-Za-z_][A-Za-z0-9_]*)\s+AS\s+\w+\)' with re.IGNORECASE
\* at j (line 135): the end, 0 if no match
CastAsEnd(s, j) ==
    IF /\ CastIdAt(s, j) # <<>> /\ AsAliasEnd(s, CastIdAt(s, j)[2]) > 0
       /\ Ch(s, AsAliasEnd(s, CastIdAt(s, j)[2])) = ")"
    THEN AsAliasEnd(s, CastIdAt(s, j)[2]) + 1 ELSE 0

\* line 135
cast_columns(sql) ==
    { SubSeq(sql, CastIdAt(sql, j)[1], CastIdAt(sql, j)[2] - 1) :
        j \in StartsFrom(sql, [j \in 1..Len(sql) |-> CastAsEnd(sql, j)], 1) }

\* lines 142-144
joborder_columns ==
    { "PART_NO", "PART_NAME", "SAP_ID", "MAT_TYPE", "MAT_GROUP",
      "PRD_QTY", "QTY_REQ", "QTY_RECEIVED", "PD_REQ", "REQ_PART",
      "STOCK_MAIN", "STOCK_NG", "STOCK_SAFETY" }

\* lines 141-149: r'\b([A-Z_][A-Z0-9_]{2,})\b' finds the words written in
\* capitals, digits and underscores; the ones kept are the JOBORDER columns
direct_columns(sql) ==
    { col \in joborder_columns :
        \E i \in 1..Len(sql) :
            At(sql, i, col) /\ Boundary(sql, i) /\ Boundary(sql, i + Len(col)) }

\* lines 134-149
all_columns(sql) == cast_columns(sql) \cup direct_columns(sql)

\* r'(?:\s+ORDER\s+BY|\s+HAVING|\s*$)' with re.IGNORECASE at e: the end, 0 if
\* no match
GroupByTermEnd(s, e) ==
    IF /\ IsSpace(Ch(s, e)) /\ AtCI(s, SkipSpace(s, e), "ORDER")
       /\ IsSpace(Ch(s, SkipSpace(s, e) + 5))
       /\ AtCI(s, SkipSpace(s, SkipSpace(s, e) + 5), "BY")
    THEN SkipSpace(s, SkipSpace(s, e) + 5) + 2
    ELSE IF IsSpace(Ch(s, e)) /\ AtCI(s, SkipSpace(s, e), "HAVING")
    THEN SkipSpace(s, e) + 6
    ELSE IF SkipSpace(s, e) = Len(s) + 1 THEN Len(s) + 1
    ELSE 0

\* r'\s+(.+?)(?:...)' after the BY that ends at b: the <<start, end>> of
\* group 1 that can be completed to a match
GroupByCands(s, b) ==
    { ae \in ((b + 1)..SkipSpace(s, b)) \X ((b + 2)..(Len(s) + 1)) :
        ae[2] > ae[1] /\ GroupByTermEnd(s, ae[2]) > 0 }

GroupByStart(s, b) == MaxOf({ ae[1] : ae \in GroupByCands(s, b) })

GroupByEnd(s, b) ==
    MinOf({ ae[2] : ae \in { x \in GroupByCands(s, b) : x[1] = GroupByStart(s, b) } })

\* the end of r'GROUP\s+BY' with re.IGNORECASE at i, 0 if no match
GroupByWordsEnd(s, i) ==
    IF /\ AtCI(s, i, "GROUP") /\ IsSpace(Ch(s, i + 5))
       /\ AtCI(s, SkipSpace(s, i + 5), "BY")
    THEN SkipSpace(s, i + 5) + 2 ELSE 0

\* the pattern of line 154 at i: <<i, group 0 end, group 1 start, group 1 end>>
GroupByAt(s, i) ==
    IF /\ GroupByWordsEnd(s, i) > 0 /\ IsSpace(Ch(s, GroupByWordsEnd(s, i)))
       /\ GroupByCands(s, GroupByWordsEnd(s, i)) # {}
    THEN << i, GroupByTermEnd(s, GroupByEnd(s, GroupByWordsEnd(s, i))),
            GroupByStart(s, GroupByWordsEnd(s, i)),
            GroupByEnd(s, GroupByWordsEnd(s, i)) >>
    ELSE <<>>

\* group_by_match (line 154), <<>> for None
GroupByMatch(s) ==
    IF \E i \in 1..Len(s) : GroupByAt(s, i) # <<>>
    THEN GroupByAt(s, MinOf({ i \in 1..Len(s) : GroupByAt(s, i) # <<>> }))
    ELSE <<>>

\* text.split(','), as a set
SplitComma(text) ==
    LET cuts == { i \in 1..Len(text) : Ch(text, i) = "," } \cup { Len(text) + 1 }
    IN  { SubSeq(text, p + 1, MinOf({ q \in cuts : q > p }) - 1) :
            p \in (cuts \ { Len(text) + 1 }) \cup {0} }

\* lines 160-162: col.strip(), and what follows its last dot
GroupByName(col) ==
    IF Contains(Strip(col), ".")
    THEN SubSeq(Strip(col),
                MaxOf({ i \in 1..Len(Strip(col)) : Ch(Strip(col), i) = "." }) + 1,
                Len(Strip(col)))
    ELSE Strip(col)

\* lines 156-163
existing_group_by(existing_group_by_text) ==
    { GroupByName(col) : col \in SplitComma(existing_group_by_text) }

\* the pattern of line 171 at j: <<start, end>> of the name, <<>> if no match
AggWrappedAt(s, j) ==
    IF /\ Boundary(s, j) /\ AggLenAt(s, j) > 0
       /\ Ch(s, SkipSpace(s, j + AggLenAt(s, j))) = "("
    THEN CastIdAt(s, SkipSpace(s, SkipSpace(s, j + AggLenAt(s, j)) + 1))
    ELSE <<>>

\* lines 171-172
agg_columns(select_text) ==
    { SubSeq(select_text, AggWrappedAt(select_text, j)[1],
             AggWrappedAt(select_text, j)[2] - 1) :
        j \in StartsFrom(select_text,
                         [j \in 1..Len(select_text) |->
                            IF AggWrappedAt(select_text, j) # <<>>
                            THEN AggWrappedAt(select_text, j)[2] ELSE 0], 1) }

\* the code points of the characters a column name is written in, in order
OrdChars == "0123456789ABCDEFGHIJKLMNOPQRSTUVWXYZ_abcdefghijklmnopqrstuvwxyz"

Ord(c) == IF c = "" THEN 0 ELSE CHOOSE i \in 1..Len(OrdChars) : Ch(OrdChars, i) = c

\* a < b as Python compares str
StrLess(a, b) ==
    \E i \in 1..(Len(b)) :
        /\ SubSeq(a, 1, MinOf({i - 1, Len(a)})) = SubSeq(b, 1, i - 1)
        /\ Len(a) >= i - 1
        /\ Ord(Ch(a, i)) < Ord(Ch(b, i))

\* ', '.join(sorted(names))
RECURSIVE JoinSorted(_)
JoinSorted(names) ==
    IF names = {} THEN ""
    ELSE LET first == CHOOSE a \in names : \A b \in names \ {a} : StrLess(a, b)
         IN  IF names = {first} THEN first
             ELSE first \o ", " \o JoinSorted(names \ {first})

\* line 176, for the match m of group_by_match
need_group_by(sql, m) ==
    (all_columns(sql) \ agg_columns(SelectContent(sql)))
        \ existing_group_by(Strip(SubSeq(sql, m[3], m[4] - 1)))

\* lines 179-182
AddGroupBy(sql, m) ==
    Replace(sql, SubSeq(sql, m[1], m[2] - 1),
            "GROUP BY " \o Strip(SubSeq(sql, m[3], m[4] - 1)) \o ", "
                \o JoinSorted(need_group_by(sql, m)))

\* lines 128-182
GroupByColumns(sql) ==
    IF /\ HasGroupBy(sql) /\ GroupByMatch(sql) # <<>> /\ SelectPart(sql) # <<>>
       /\ need_group_by(sql, GroupByMatch(sql)) # {}
    THEN AddGroupBy(sql, GroupByMatch(sql)) ELSE sql

(***************************************************************************)
(* The closing parentheses of aggregate calls, lines 185-215.              *)
(***************************************************************************)
\* rf'\b{func}\s*\(' with re.IGNORECASE at j: the position of the opening
\* parenthesis (match.end() - 1), 0 if no match
FuncParenAt(s, func, j) ==
    IF /\ AtCI(s, j, func) /\ Boundary(s, j)
       /\ Ch(s, SkipSpace(s, j + Len(func))) = "("
    THEN SkipSpace(s, j + Len(func)) ELSE 0

\* line 192: the start_pos of every match, in the text the loop over the
\* matches starts with
ParenPositions(s, func) ==
    { FuncParenAt(s, func, j) :
        j \in StartsFrom(s, [j \in 1..Len(s) |->
                               IF FuncParenAt(s, func, j) > 0
                               THEN FuncParenAt(s, func, j) + 1 ELSE 0], 1) }

CountChar(s, c, a, b) == Cardinality({ i \in a..b : Ch(s, i) = c })

RECURSIVE Repeat(_, _)
Repeat(c, n) == IF n <= 0 THEN "" ELSE c \o Repeat(c, n - 1)

\* lines 205-214, with the ' FROM' found at from_pos
CloseBefore(sql, start_pos, from_pos) ==
    IF CountChar(sql, "(", start_pos, from_pos - 1)
          > CountChar(sql, ")", start_pos, from_pos - 1)
    THEN SubSeq(sql, 1, from_pos - 1)
            \o Repeat(")", CountChar(sql, "(", start_pos, from_pos - 1)
                              - CountChar(sql, ")", start_pos, from_pos - 1))
            \o From(sql, from_pos)
    ELSE sql

\* lines 194-214: one round of the loop over the matches
CloseAt(sql, start_pos) ==
    IF Find(Upper(sql), " FROM", start_pos) = 0 THEN sql
    ELSE CloseBefore(sql, start_pos, Find(Upper(sql), " FROM", start_pos))

\* lines 193-214: the loop over the matches, whose positions are the ones found
\* before the first insertion
RECURSIVE CloseParens(_, _)
CloseParens(sql, positions) ==
    IF positions = {} \/ ~Ready(sql) THEN sql
    ELSE CloseParens(CloseAt(sql, MinOf(positions)), positions \ {MinOf(positions)})

\* lines 190-214: one round of the loop over agg_functions
FixParens(sql, func) == CloseParens(sql, ParenPositions(sql, func))

\* lines 189-214
FixAllParens(sql) ==
    FixParens(FixParens(FixParens(FixParens(FixParens(sql,
        "SUM"), "AVG"), "COUNT"), "MAX"), "MIN")

\* re.sub(r'\s+', ' ', sql).strip() (line 220)
CollapseSpace(s) ==
    Strip(ReSub(s, [i \in 1..Len(s) |->
                      IF IsSpace(Ch(s, i)) THEN SkipSpace(s, i) ELSE 0],
                   [i \in 1..Len(s) |-> " "]))

clean_sql_syntax(sql) ==
    IF sql = "" THEN sql
    ELSE CollapseSpace(FixAllParens(GroupByColumns(GroupByArithmetic(
             CastColumns(LimitToTop(ReplaceFunctions(RemoveBackticks(
                 RemoveMarkdown(sql)))), 1)))))

(***************************************************************************)
(* generate_sql_with_ollama, src/app/main.py lines 389-433: the SQL and    *)
(* the explanation taken from the model service's reply.                   *)
(***************************************************************************)
\* ai_response.split("EXPLANATION:")[0] and [1]
BeforeMarker(s, marker) == SubSeq(s, 1, Find(s, marker, 1) - 1)

AfterMarker(s, marker) ==
    LET a == Find(s, marker, 1) + Len(marker)
        b == Find(s, marker, a)
    IN  SubSeq(s, a, IF b = 0 THEN Len(s) ELSE b - 1)

\* r'```sql\s*(.*?)\s*```' with re.DOTALL | re.IGNORECASE at i:
\* <<group 1 start, group 1 end, match end>>, ends exclusive (line 409)
FencedBlockAt(s, i) ==
    LET k == SkipSpace(s, i + 6)
        ends == { j \in k..(Len(s) + 1) : At(s, SkipSpace(s, j), Fence) }
    IN  IF At(s, i, Fence) /\ AtCI(s, i + 3, "SQL") /\ ends # {}
        THEN << k, MinOf(ends), SkipSpace(s, MinOf(ends)) + 3 >> ELSE <<>>

\* r'SQL:\s*(.*?)(?=\n\n|\Z)' with re.DOTALL | re.IGNORECASE at i (line 414)
SqlKeywordAt(s, i) ==
    LET k == SkipSpace(s, i + 4)
        ends == { j \in k..(Len(s) + 1) : j = Len(s) + 1 \/ At(s, j, "\n\n") }
    IN  IF AtCI(s, i, "SQL:") THEN << k, MinOf(ends), MinOf(ends) >> ELSE <<>>

\* r'```sql.*?```' with re.DOTALL | re.IGNORECASE at i (line 424)
FencedTextEnd(s, i) ==
    IF At(s, i, Fence) /\ AtCI(s, i + 3, "SQL") /\ Find(s, Fence, i + 6) > 0
    THEN Find(s, Fence, i + 6) + 3 ELSE 0

\* lines 405-425: <<sql_query, explanation>> before clean_sql_syntax
FallbackParse(ai_response) ==
    LET s == ai_response
        f == FirstMatch(s, [i \in 1..Len(s) |->
                              IF FencedBlockAt(s, i) # <<>>
                              THEN FencedBlockAt(s, i)[3] ELSE 0])
        q == FirstMatch(s, [i \in 1..Len(s) |->
                              IF SqlKeywordAt(s, i) # <<>>
                              THEN SqlKeywordAt(s, i)[3] ELSE 0])
        at == IF f > 0 THEN f ELSE q
        sql_match == IF f > 0 THEN FencedBlockAt(s, f)
                     ELSE IF q > 0 THEN SqlKeywordAt(s, q) ELSE <<>>
        sql_query == IF sql_match = <<>> THEN ""
                     ELSE Strip(SubSeq(s, sql_match[1], sql_match[2] - 1))
        group0 == SubSeq(s, at, sql_match[3] - 1)
        a == Strip(Replace(s, group0, ""))
        b == Strip(ReSub(a, [i \in 1..Len(a) |-> FencedTextEnd(a, i)],
                            [i \in 1..Len(a) |-> ""]))
    IN  IF sql_query = "" THEN << "", "" >>
        ELSE IF Ready(a) THEN << sql_query, b >> ELSE << "", "" >>

\* lines 390-393: <<sql_part, explanation_part>> before clean_sql_syntax
MarkerParse(ai_response) ==
    << Strip(Replace(BeforeMarker(ai_response, "EXPLANATION:"), "SQL:", "")),
       Strip(AfterMarker(ai_response, "EXPLANATION:")) >>

\* line 390
HasMarkers(ai_response) ==
    Contains(ai_response, "SQL:") /\ Contains(ai_response, "EXPLANATION:")

\* lines 389-433 without the calls of clean_sql_syntax: the SQL text and the
\* explanation taken from the reply, on either path
SplitReply(ai_response) ==
    IF HasMarkers(ai_response) THEN MarkerParse(ai_response)
    ELSE FallbackParse(ai_response)

\* the SQL text handed to clean_sql_syntax
ExtractSql(ai_response) == SplitReply(ai_response)[1]

\* a variant of CleanExtracted that cleans on the marker path only
CleanMarkerPathOnly(ai_response, sql_part) ==
    IF HasMarkers(ai_response) THEN clean_sql_syntax(sql_part) ELSE sql_part

\* lines 393 and 411: the statement taken from ai_response is cleaned on
\* either path
CleanExtracted(ai_response, sql_part) == clean_sql_syntax(sql_part)

\* lines 389-433: <<raw sql, sql, explanation>>, the last two as
\* generate_sql_with_ollama returns them
ParseReply(ai_response) ==
    With(SplitReply(ai_response),
         LAMBDA parts : << parts[1], CleanExtracted(ai_response, parts[1]), parts[2] >>)

(***************************************************************************)
(* execute_sql_query's keyword check, src/app/main.py lines 446-451.       *)
(***************************************************************************)
dangerous_keywords ==
    << "INSERT", "UPDATE", "DELETE", "DROP", "ALTER", "TRUNCATE", "CREATE" >>

\* the positions in dangerous_keywords of the keywords found in sql_upper
KeywordHits(sql_query) ==
    { k \in 1..Len(dangerous_keywords) :
        Contains(Strip(Upper(sql_query)), dangerous_keywords[k]) }

\* a variant of DetectedKeyword that looks in sql_query as written, not in
\* its upper-cased form
DetectedKeywordAsWritten(sql_query) ==
    LET hits == { k \in 1..Len(dangerous_keywords) :
                    Contains(sql_query, dangerous_keywords[k]) }
    IN  IF hits = {} THEN "" ELSE dangerous_keywords[MinOf(hits)]

\* the keyword the loop raises on (the first of the list that is found), "" if none
DetectedKeyword(sql_query) ==
    IF KeywordHits(sql_query) = {} THEN ""
    ELSE dangerous_keywords[MinOf(KeywordHits(sql_query))]

(***************************************************************************)
(* Result rows.  The cursor gives the column names (cursor.description)    *)
(* and the rows as tuples of values; the code turns each row into a        *)
(* function from column names to values.  A value is <<type, text>> with   *)
(* type "num" (int, float, Decimal), "str" or "null" (None).               *)
(***************************************************************************)
\* a variant of RowDicts that returns the dictionaries last row first
RowDictsReversed(columns, rows) ==
    [ r \in 1..Len(rows) |->
        [ c \in { columns[i] : i \in 1..Len(rows[Len(rows) + 1 - r]) } |->
            rows[Len(rows) + 1 - r][MaxOf({ i \in 1..Len(rows[Len(rows) + 1 - r]) :
                                              columns[i] = c })] ] ]

\* lines 461-466 (and database.py lines 62-67): one dictionary per row, in
\* row order; of two columns of one name the later one is kept
RowDicts(columns, rows) ==
    [ r \in 1..Len(rows) |->
        [ c \in { columns[i] : i \in 1..Len(rows[r]) } |->
            rows[r][MaxOf({ i \in 1..Len(rows[r]) : columns[i] = c })] ] ]

LowerCh(c) ==
    IF c \in UpperSet
    THEN Ch(LowerLetters, CHOOSE i \in 1..26 : Ch(UpperLetters, i) = c)
    ELSE c

\* str.lower()
RECURSIVE Lower(_)
Lower(s) ==
    IF Len(s) = 0 THEN ""
    ELSE IF Len(s) = 1 THEN LowerCh(s)
    ELSE Lower(SubSeq(s, 1, Len(s) \div 2))
            \o Lower(SubSeq(s, Len(s) \div 2 + 1, Len(s)))

\* float(text) returns: optional sign, digits, optional fraction, after strip()
\* (the exponent, inf, nan and digit-group forms are not among the values used)
FloatParses(text) ==
    LET s == Strip(text)
        u == IF Ch(s, 1) \in {"+", "-"} THEN From(s, 2) ELSE s
        d == SkipDigits(u, 1)
    IN  \/ d > 1 /\ d = Len(u) + 1
        \/ d > 1 /\ Ch(u, d) = "." /\ SkipDigits(u, d + 1) = Len(u) + 1
        \/ d = 1 /\ Ch(u, 1) = "." /\ Len(u) >= 2 /\ SkipDigits(u, 2) = Len(u) + 1

\* bool(value)
Truthy(v) ==
    CASE v[1] = "null" -> FALSE
      [] v[1] = "str"  -> v[2] # ""
      [] v[1] = "num"  -> v[2] \notin {"0", "0.0"}

\* row.get(key, default)
RowGet(row, key, default) == IF key \in DOMAIN row THEN row[key] ELSE default

\* float(row.get(key, 0)) if row.get(key) else 0 raises (lines 525-527)
FloatOrZeroRaises(row, key) ==
    LET v == RowGet(row, key, <<"null", "">>)
    IN  Truthy(v) /\ v[1] = "str" /\ ~FloatParses(v[2])

\* lines 496-499: one row of one column whose name holds count, total or sum
IsMetricRow(results) ==
    /\ Len(results) = 1
    /\ Cardinality(DOMAIN results[1]) = 1
    /\ LET first_key == CHOOSE k \in DOMAIN results[1] : TRUE
       IN  \/ Contains(Lower(first_key), "count")
           \/ Contains(Lower(first_key), "total")
           \/ Contains(Lower(first_key), "sum")

\* one round of the loop of lines 520-550 raises: a PART_NAME that is no str
\* cannot be sliced, a text that is no number cannot be converted
PartRowRaises(row) ==
    \/ RowGet(row, "PART_NAME", <<"str", "">>)[1] # "str"
    \/ FloatOrZeroRaises(row, "STOCK_MAIN")
    \/ FloatOrZeroRaises(row, "QTY_REQ")
    \/ FloatOrZeroRaises(row, "QTY_RECEIVED")

\* lines 487-590: building results_text and analysis_data raises
FormatRaises(results) ==
    IF Len(results) = 0 THEN FALSE
    ELSE IF Len(results) = 1 /\ Cardinality(DOMAIN results[1]) = 1
    THEN IsMetricRow(results)
            /\ (CHOOSE v \in { results[1][k] : k \in DOMAIN results[1] } : TRUE)[1] # "num"
    ELSE IF Len(results) <= 20
    THEN \E i \in 1..Len(results) : PartRowRaises(results[i])
    ELSE FALSE

\* a Thai letter (U+0E01..U+0E7E, the test of line 482) is written as TH
TH == "#"

\* lines 481-485
LangInstruction(question, language) ==
    IF language = "thai" \/ (language = "auto" /\ TH \in CharsOf(question))
    THEN "thai" ELSE "english"

(***************************************************************************)
(* OllamaClient._parse_response, src/app/ollama_client.py lines 88-153.    *)
(* The argument is a value <<type, text>> as in the result rows: the       *)
(* "response" member of the model service's JSON is a str or null.         *)
(***************************************************************************)
\* str.split('\n')
RECURSIVE SplitLines(_)
SplitLines(s) ==
    LET n == Find(s, "\n", 1)
    IN  IF n = 0 THEN << s >>
        ELSE << SubSeq(s, 1, n - 1) >> \o SplitLines(From(s, n + 1))

\* '\n'.join(lines)
RECURSIVE JoinLines(_)
JoinLines(lines) ==
    IF lines = << >> THEN ""
    ELSE IF Len(lines) = 1 THEN lines[1]
    ELSE lines[1] \o "\n" \o JoinLines(Tail(lines))

\* line 101, on a stripped line
KeptSqlLine(line) ==
    line # "" /\ ~At(line, 1, Fence) /\ ~At(line, 1, "sql")

\* lines 99-100: the lines of sql_part, each stripped
StrippedLines(text) ==
    LET lines == SplitLines(text)
    IN  [i \in 1..Len(lines) |-> Strip(lines[i])]

\* Method 1, lines 92-106: <<sql_query, explanation_part>>
MarkerMethod(response) ==
    LET parts == MarkerParse(response)
        sql_lines == SelectSeq(StrippedLines(parts[1]), KeptSqlLine)
    IN  << Strip(JoinLines(sql_lines)), parts[2] >>

\* the loop of lines 116-125 over the lines left: <<sql_lines, explanation_lines>>
RECURSIVE FenceScan(_, _, _, _)
FenceScan(lines, in_sql_block, sql_lines, explanation_lines) ==
    IF lines = << >> THEN << sql_lines, explanation_lines >>
    ELSE LET line == Head(lines)
             rest == Tail(lines)
         IN  IF Contains(Lower(line), Fence \o "sql")
             THEN FenceScan(rest, TRUE, sql_lines, explanation_lines)
             ELSE IF Contains(line, Fence) /\ in_sql_block
             THEN FenceScan(rest, FALSE, sql_lines, explanation_lines)
             ELSE IF in_sql_block
             THEN FenceScan(rest, TRUE, Append(sql_lines, line), explanation_lines)
             ELSE IF Strip(line) # ""
             THEN FenceScan(rest, FALSE, sql_lines, Append(explanation_lines, line))
             ELSE FenceScan(rest, FALSE, sql_lines, explanation_lines)

\* Method 2, lines 109-130: <<sql_query, explanation>>
FenceMethod(response) ==
    LET found == FenceScan(SplitLines(response), FALSE, << >>, << >>)
    IN  << Strip(JoinLines(found[1])), Strip(JoinLines(found[2])) >>

\* line 140
SqlKeywords == { "SELECT", "FROM", "WHERE", "ORDER BY", "GROUP BY" }

\* line 142
ReplyMarkers == { "SQL:", "EXPLANATION:", Fence }

\* the loop of lines 138-143 over the lines left: <<sql_lines, explanation_lines>>
RECURSIVE KeywordScan(_, _, _)
KeywordScan(lines, sql_lines, explanation_lines) ==
    IF lines = << >> THEN << sql_lines, explanation_lines >>
    ELSE LET line == Head(lines)
             rest == Tail(lines)
             line_upper == Upper(Strip(line))
         IN  IF \E keyword \in SqlKeywords : Contains(line_upper, keyword)
             THEN KeywordScan(rest, Append(sql_lines, Strip(line)), explanation_lines)
             ELSE IF /\ Strip(line) # ""
                     /\ ~\E marker \in ReplyMarkers : Contains(Upper(line), marker)
             THEN KeywordScan(rest, sql_lines, Append(explanation_lines, Strip(line)))
             ELSE KeywordScan(rest, sql_lines, explanation_lines)

\* Method 3, lines 133-148: <<sql_query, explanation>>
KeywordMethod(response) ==
    LET found == KeywordScan(SplitLines(response), << >>, << >>)
        explanation == Strip(JoinLines(found[2]))
    IN  << Strip(JoinLines(found[1])),
           IF explanation # "" THEN explanation ELSE "Query executed successfully" >>

\* what a call of _parse_response leaves: the method taken, and the pair
\* returned or the exception that leaves the function
ParseReturn(method, pair) ==
    [ returned |-> "pair", trace |-> << method >>,
      sql_query |-> pair[1], explanation |-> pair[2] ]

\* lines 88-153.  A response that is no str makes the test of line 92 raise
\* TypeError; the handler of lines 150-153 then calls response.strip(), which
\* raises AttributeError out of the function.
_parse_response(response) ==
    IF response[1] # "str"
    THEN [ returned |-> "raise", trace |-> << "TypeError", "AttributeError" >>,
           sql_query |-> "", explanation |-> "" ]
    ELSE IF HasMarkers(response[2])
    THEN ParseReturn("Method 1", MarkerMethod(response[2]))
    ELSE IF Contains(Lower(response[2]), Fence \o "sql")
    THEN ParseReturn("Method 2", FenceMethod(response[2]))
    ELSE ParseReturn("Method 3", KeywordMethod(response[2]))

(***************************************************************************)
(* The inputs: what clients ask and what the model service and the         *)
(* database answer.                                                        *)
(***************************************************************************)
\* at most NumReq requests are being served at a time
NumReq == 2

\* <<question, language>> of a QueryRequest
Questions ==
    { << "low stock parts", "auto" >>, << "# stock", "auto" >> }

\* the "response" text of the model service to the SQL prompt
ModelReplies ==
    { "SQL: SELECT PART_NO, CAST(QTY_REQ AS FLOAT) - SUM(QTY_RECEIVED) AS diff\n"
         \o "FROM JOBORDER GROUP BY PART_NO LIMIT 5\nEXPLANATION: first five",
      "~~~sql\nselect ~PART_NO~ from JOBORDER\n~~~\nall parts",
      "SQL: SELECT MAT_TYPE, SUM(STOCK_NG FROM JOBORDER WHERE STOCK_NG>0 "
         \o "GROUP BY MAT_TYPE EXPLANATION: ng",
      "SQL: DROP TABLE JOBORDER\nEXPLANATION: cleanup",
      "SQL: SELECT UPDATED_BY FROM JOBORDER EXPLANATION: editor",
      "sql: delete from JOBORDER",
      "SQL: EXEC sp_who EXPLANATION: sessions",
      "I cannot answer that" }

\* the texts _parse_response is called with
ResponseTexts ==
    ModelReplies \cup
    { "SQL:\n~~~sql\nSELECT PART_NO\n  FROM JOBORDER\n~~~\nEXPLANATION: parts\n"
         \o "EXPLANATION: twice",
      "SQL: SELECT sql_id,\nsql_text\nFROM AUDIT EXPLANATION: statements",
      "Here:\n~~~SQL\nSELECT PART_NO,\nPART_NAME\nFROM JOBORDER\n~~~\nall parts",
      "~~~sql SELECT PART_NO FROM JOBORDER ~~~\nall parts",
      "~~~\nSELECT 1\n~~~\n~~~sql\nSELECT 2\n~~~",
      "SELECT PART_NO,\n  PART_NAME\nFROM JOBORDER\nlists parts",
      "select from the menu",
      "" }

\* the values _parse_response is called with: result.get("response", "") of
\* line 76 is a str, or None when the member is null
Responses == { << "str", text >> : text \in ResponseTexts } \cup { << "null", "" >> }

\* the statements clean_sql_syntax is called with
SqlInputs ==
    { "SELECT PART_NO FROM JOBORDER LIMIT 5",
      "SELECT PART_NO FROM JOBORDER ORDER BY PART_NO LIMIT 10, 5",
      "SELECT PART_NO FROM JOBORDER WHERE MAT_TYPE IN ('A','B')LIMIT 5",
      "select PART_NO from JOBORDER limit 0, 3",
      "SELECT PART_NO FROM JOBORDER WHERE PART_NO IN "
          \o "(SELECT PART_NO FROM JOBORDER LIMIT 3) LIMIT 5",
      "SELECT TOP 3 PART_NO FROM JOBORDER",
      "SELECT PART_NO FROM JOBORDER",
      "SELECT SUM(QTY_REQ), AVG(STOCK_MAIN) FROM JOBORDER "
          \o "WHERE QTY_REQ > 5 AND STOCK_MAIN < STOCK_SAFETY",
      "SELECT MAX(PRD_QTY), MIN(PD_REQ) FROM JOBORDER "
          \o "WHERE REQ_PART != 0 AND STOCK_NG>=QTY_RECEIVED",
      "SELECT SUM( QTY_REQ ) FROM JOBORDER",
      "SELECT PART_NO FROM JOBORDER "
          \o "WHERE CAST(QTY_REQ AS FLOAT) > 5 AND QTY_RECEIVED<=QTY_REQ",
      "SELECT MAT_TYPE, STOCK_MAIN, SUM(STOCK_MAIN) AS total FROM JOBORDER "
          \o "GROUP BY MAT_TYPE",
      "SELECT MAT_TYPE, PART_NO, SUM(STOCK_MAIN) AS total FROM JOBORDER "
          \o "GROUP BY MAT_TYPE",
      "select mat_type, part_no, sum(stock_main) as total from JOBORDER "
          \o "group by mat_type",
      "SELECT MAT_TYPE, PART_NO, COUNT(*) AS n FROM JOBORDER "
          \o "WHERE STOCK_NG > 0 GROUP BY MAT_TYPE",
      "SELECT PART_NO, PART_NAME, SUM(QTY_REQ) FROM JOBORDER "
          \o "GROUP BY PART_NO, PART_NAME",
      "SELECT MAT_TYPE, PART_NO, SUM(STOCK_MAIN) AS total FROM JOBORDER "
          \o "GROUP BY MAT_TYPE LIMIT 5",
      "" }

\* an HTTP reply of the model service: status 0 stands for no reply at all
\* (connection refused, timeout, a body that is no JSON)
GenOutcomes ==
    { [status |-> 200, text |-> r] : r \in ModelReplies }
        \cup { [status |-> 500, text |-> ""], [status |-> 0, text |-> ""] }

NarrOutcomes ==
    { [status |-> 200, text |-> " Found the parts. \n"],
      [status |-> 500, text |-> ""], [status |-> 0, text |-> ""] }

\* status of GET /api/tags, 0 for no reply
TagsOutcomes == { 200, 404, 0 }

\* pyodbc.connect returns or raises
ConnectOutcomes == { "ok", "fail" }

PartRow(no, name, stock) == << <<"str", no>>, name, <<"str", stock>> >>

\* what cursor.description and cursor.fetchall() may return
ResultSets ==
    { [columns |-> << "PART_NO" >>, rows |-> <<>>],
      [columns |-> << "total" >>, rows |-> << << <<"num", "5">> >> >>],
      [columns |-> << "total" >>, rows |-> << << <<"null", "">> >> >>],
      [columns |-> << "PART_NO", "PART_NAME", "STOCK_MAIN" >>,
       rows |-> << PartRow("P1", <<"str", "Foam A">>, "120"),
                   PartRow("P2", <<"str", "Foam B">>, "7") >>] }

\* cursor.execute, cursor.description and cursor.fetchall return, or one raises
ExecOutcomes ==
    { [ok |-> TRUE, columns |-> rs.columns, rows |-> rs.rows] : rs \in ResultSets }
        \cup { [ok |-> FALSE, columns |-> <<>>, rows |-> <<>>] }

(***************************************************************************)
(* The state: the requests being served, and the module-level              *)
(* configuration (src/app/main.py lines 241-250).                          *)
(***************************************************************************)
VARIABLES reqs, config

vars == << reqs, config >>

\* the locals of a handler that has just been entered
NewRequest(kind, question, language) ==
    [ kind |-> kind, pc |-> "new", question |-> question, language |-> language,
      sql_raw |-> "", sql_query |-> "", explanation |-> "", results |-> <<>>,
      lang_instruction |-> "", ai_response |-> "",
      db_status |-> "", ollama_status |-> "", overall_status |-> "",
      executed |-> <<>>, opened |-> 0, closed |-> 0, trace |-> <<>>,
      got_gen |-> <<>>, got_conn |-> <<>>, got_exec |-> <<>>, got_narr |-> <<>>,
      got_tags |-> <<>>, status |-> 0, detail |-> "", returned |-> "none" ]

\* raise HTTPException(status_code, detail), which FastAPI turns into the response
Raise(q, status_code, detail) ==
    [q EXCEPT !.pc = "done", !.status = status_code, !.detail = detail,
              !.trace = Append(@, "respond")]

\* str(e) of an HTTPException
HttpExceptionStr(status_code, detail) ==
    (CASE status_code = 400 -> "400" [] status_code = 500 -> "500") \o ": " \o detail

\* ParseReply on every reply of the model service, computed once
Parsed == [r \in ModelReplies \cup {""} |-> ParseReply(r)]

\* clean_sql_syntax on every statement of SqlInputs, computed once
CleanedSql == [sql \in SqlInputs |-> clean_sql_syntax(sql)]

\* _parse_response on every value of Responses, computed once
ParsedResponse == [response \in Responses |-> _parse_response(response)]

\* a variant of generate_sql_with_ollama that parses whatever came back,
\* without a look at the status
generate_sql_any_status(q, out) ==
    LET parsed == Parsed[out.text]
    IN  [q EXCEPT !.pc = "execute", !.got_gen = Append(@, out),
                  !.sql_raw = parsed[1], !.sql_query = parsed[2],
                  !.explanation = parsed[3],
                  !.trace = @ \o <<"gen_done", "clean">>]

\* lines 372-440 after the await: the reply of the model service is parsed
generate_sql_with_ollama(q, out) ==
    LET got == [q EXCEPT !.got_gen = Append(@, out), !.trace = Append(@, "gen_done")]
        parsed == Parsed[out.text]
    IN  IF out.status = 200
        THEN [got EXCEPT !.pc = "execute",
                         !.sql_raw = parsed[1],
                         !.sql_query = parsed[2],
                         !.explanation = parsed[3],
                         !.trace = Append(@, "clean")]
        ELSE IF out.status = 0
        THEN Raise(got, 500, "AI service unavailable: no reply")
        ELSE Raise(got, 500, "AI service unavailable: "
                        \o HttpExceptionStr(500, "Failed to generate SQL with Ollama"))

\* a variant of SqlArgument that reads the statement from a module-level
\* name every request assigns
SqlArgumentShared(q) ==
    LET others == { o \in BagToSet(reqs) :
                      /\ o.kind = "query"
                      /\ o.pc \in {"execute", "narrate", "narr_wait", "done"}
                      /\ o.sql_query # q.sql_query }
    IN  IF others = {} THEN q.sql_query ELSE (CHOOSE o \in others : TRUE).sql_query

\* line 741: the argument process_query gives execute_sql_query
SqlArgument(q) == q.sql_query

\* a variant of execute_sql_query that checks the keywords after the execution
execute_before_check(q, conn, exec) ==
    LET sql_query == SqlArgument(q)
        tried == [q EXCEPT !.got_conn = Append(@, conn),
                           !.trace = @ \o <<"connect", "connect_done">>]
        ran == [tried EXCEPT !.opened = @ + 1,
                             !.executed = Append(@, sql_query),
                             !.got_exec = Append(@, exec),
                             !.trace = @ \o <<"execute", "execute_done", "denylist">>]
    IN  IF conn = "fail"
        THEN Raise(tried, 400, "SQL execution failed: "
                        \o HttpExceptionStr(500, "Database connection failed: refused"))
        ELSE IF ~exec.ok
        THEN Raise(ran, 400, "SQL execution failed: error")
        ELSE IF DetectedKeyword(sql_query) # ""
        THEN Raise(ran, 400,
                   "Dangerous SQL keyword detected: " \o DetectedKeyword(sql_query))
        ELSE [ran EXCEPT !.pc = "narrate",
                         !.results = RowDicts(exec.columns, exec.rows),
                         !.closed = @ + 1]

\* lines 442-475
execute_sql_query(q, conn, exec) ==
    LET sql_query == SqlArgument(q)
        checked == [q EXCEPT !.trace = Append(@, "denylist")]
        tried == [checked EXCEPT !.got_conn = Append(@, conn),
                                 !.trace = @ \o <<"connect", "connect_done">>]
        ran == [tried EXCEPT !.opened = @ + 1,
                             !.executed = Append(@, sql_query),
                             !.got_exec = Append(@, exec),
                             !.trace = @ \o <<"execute", "execute_done">>]
    IN  IF DetectedKeyword(sql_query) # ""
        THEN Raise(checked, 400,
                   "Dangerous SQL keyword detected: " \o DetectedKeyword(sql_query))
        ELSE IF conn = "fail"
        THEN Raise(tried, 400, "SQL execution failed: "
                        \o HttpExceptionStr(500, "Database connection failed: refused"))
        ELSE IF ~exec.ok
        THEN Raise(ran, 400, "SQL execution failed: error")
        ELSE [ran EXCEPT !.pc = "narrate",
                         !.results = RowDicts(exec.columns, exec.rows),
                         !.closed = @ + 1]

\* lines 477-631, up to the await: the prompt is built and posted
generate_ai_response_call(q) ==
    IF FormatRaises(q.results)
    THEN Raise(q, 500, "Query processing failed: format")
    ELSE [q EXCEPT !.pc = "narr_wait",
                   !.lang_instruction = LangInstruction(q.question, q.language),
                   !.trace = Append(@, "narr_call")]

\* a variant of generate_ai_response that posts the prompt once more when the
\* first post fails
generate_ai_response_retry(q, out) ==
    IF out.status # 200 /\ q.got_narr = <<>>
    THEN [q EXCEPT !.got_narr = Append(@, out),
                   !.trace = @ \o <<"narr_done", "narr_call">>]
    ELSE [q EXCEPT !.pc = "done", !.status = 200,
                   !.got_narr = Append(@, out),
                   !.ai_response =
                       IF out.status = 200 THEN Strip(out.text)
                       ELSE "Unable to generate AI response at this time.",
                   !.trace = @ \o <<"narr_done", "respond">>]

\* lines 633-643 and 746-753: the narration, and the QueryResponse
generate_ai_response(q, out) ==
    [q EXCEPT !.pc = "done", !.status = 200,
              !.got_narr = Append(@, out),
              !.ai_response =
                  IF out.status = 200 THEN Strip(out.text)
                  ELSE IF out.status = 0 THEN "AI response failed: no reply"
                  ELSE "Unable to generate AI response at this time.",
              !.trace = @ \o <<"narr_done", "respond">>]

\* a variant of health_check_call that lets the failure of get_db_connection
\* pass to the caller
health_check_call_uncaught(q, conn) ==
    IF conn = "fail"
    THEN Raise([q EXCEPT !.got_conn = Append(@, conn)], 500,
               "Database connection failed: refused")
    ELSE [q EXCEPT !.pc = "tags_wait", !.got_conn = Append(@, conn),
                   !.opened = @ + 1, !.closed = @ + 1, !.db_status = "ok"]

\* lines 667-679, up to the await: the database is probed, GET /api/tags is sent
health_check_call(q, conn) ==
    [q EXCEPT !.pc = "tags_wait",
              !.got_conn = Append(@, conn),
              !.opened = IF conn = "ok" THEN @ + 1 ELSE @,
              !.closed = IF conn = "ok" THEN @ + 1 ELSE @,
              !.db_status = IF conn = "ok" THEN "ok" ELSE "error"]

\* lines 680-692
health_check(q, tags) ==
    LET ollama_status == IF tags = 200 THEN "ok" ELSE "error"
    IN  [q EXCEPT !.pc = "done", !.status = 200,
                  !.got_tags = Append(@, tags),
                  !.ollama_status = ollama_status,
                  !.overall_status =
                      IF q.db_status = "ok" /\ ollama_status = "ok"
                      THEN "ok" ELSE "error"]

\* DatabaseConnection.test_connection, src/app/database.py lines 38-50; run is
\* what cursor(), execute("SELECT 1") and fetchone() do
test_connection(q, conn, run) ==
    LET tried == [q EXCEPT !.pc = "done", !.got_conn = Append(@, conn)]
        ran == [tried EXCEPT !.opened = @ + 1, !.executed = Append(@, "SELECT 1"),
                             !.got_exec = Append(@, run)]
    IN  IF conn = "fail" THEN [tried EXCEPT !.returned = "False"]
        ELSE IF ~run.ok THEN [ran EXCEPT !.returned = "False"]
        ELSE [ran EXCEPT !.closed = @ + 1, !.returned = "True"]

\* a variant of is_healthy that takes any answer of the service for health
is_healthy_any_answer(q, tags) ==
    [q EXCEPT !.pc = "done", !.got_tags = Append(@, tags),
              !.returned = IF tags # 0 THEN "True" ELSE "False"]

\* OllamaClient.is_healthy, src/app/ollama_client.py lines 18-26
is_healthy(q, tags) ==
    [q EXCEPT !.pc = "done", !.got_tags = Append(@, tags),
              !.returned = IF tags = 200 THEN "True" ELSE "False"]

\* the statement of get_schema, lines 701-710
SchemaQuery ==
    "SELECT COLUMN_NAME, DATA_TYPE, IS_NULLABLE, COLUMN_DEFAULT "
        \o "FROM INFORMATION_SCHEMA.COLUMNS WHERE TABLE_NAME = 'JOBORDER' "
        \o "ORDER BY ORDINAL_POSITION"

\* what the cursor of get_schema may give: the rows of
\* INFORMATION_SCHEMA.COLUMNS (a default of None is written as "None")
SchemaOutcomes ==
    { [ok |-> TRUE, columns |-> <<>>,
       rows |-> << << "PART_NO", "varchar", "NO", "None" >>,
                   << "STOCK_MAIN", "varchar", "YES", "0" >> >>],
      [ok |-> TRUE, columns |-> <<>>, rows |-> <<>>],
      [ok |-> FALSE, columns |-> <<>>, rows |-> <<>>] }

\* lines 712-719
SchemaColumns(rows) ==
    [ r \in 1..Len(rows) |->
        [ name |-> rows[r][1], type |-> rows[r][2],
          nullable |-> (rows[r][3] = "YES"), default |-> rows[r][4] ] ]

\* GET /schema, lines 694-730
get_schema(q, conn, exec) ==
    LET tried == [q EXCEPT !.got_conn = Append(@, conn),
                           !.trace = @ \o <<"connect", "connect_done">>]
        ran == [tried EXCEPT !.opened = @ + 1,
                             !.executed = Append(@, SchemaQuery),
                             !.got_exec = Append(@, exec),
                             !.trace = @ \o <<"execute", "execute_done">>]
    IN  IF conn = "fail"
        THEN Raise(tried, 500, "Failed to get schema: "
                        \o HttpExceptionStr(500, "Database connection failed: refused"))
        ELSE IF ~exec.ok
        THEN Raise(ran, 500, "Failed to get schema: error")
        ELSE [ran EXCEPT !.pc = "done", !.status = 200,
                         !.results = SchemaColumns(exec.rows),
                         !.closed = @ + 1,
                         !.trace = Append(@, "respond")]

\* the statements DatabaseConnection.execute_query is called with
\* (src/tests/test_app.py line 19, database.py line 89)
QueryStatements == { "SELECT COUNT(*) as count FROM JOBORDER", SchemaQuery }

\* what the cursor of execute_query may give: the result sets of ResultSets,
\* a count, and a result with two columns of one name
QueryOutcomes ==
    ExecOutcomes \cup
        { [ok |-> TRUE, columns |-> << "count" >>, rows |-> << << <<"num", "3">> >> >>],
          [ok |-> TRUE, columns |-> << "PART_NO", "n", "n" >>,
           rows |-> << << <<"str", "P1">>, <<"num", "1">>, <<"num", "2">> >>,
                       << <<"str", "P2">>, <<"num", "3">>, <<"null", "">> >> >>] }

\* a Python exception that leaves a function: the call has ended, detail is
\* the exception as the caller sees it
Propagate(q, detail) == [q EXCEPT !.pc = "done", !.returned = "raise", !.detail = detail]

\* a variant of execute_query that closes the cursor and the connection after
\* the rows were fetched, without a finally clause
execute_query_close_on_success(q, conn, cur, exec) ==
    LET tried == [q EXCEPT !.got_conn = Append(@, conn), !.trace = Append(@, "connect")]
        connected == [tried EXCEPT !.opened = @ + 1, !.trace = Append(@, "cursor")]
        ran == [connected EXCEPT !.executed = Append(@, q.sql_query),
                                 !.got_exec = Append(@, exec),
                                 !.trace = @ \o <<"cursor_done", "execute">>]
    IN  IF conn = "fail" THEN Propagate(tried, "refused")
        ELSE IF cur = "fail" THEN Propagate(connected, "no cursor")
        ELSE IF ~exec.ok THEN Propagate(ran, "error")
        ELSE [ran EXCEPT !.pc = "done", !.returned = "rows",
                         !.results = RowDicts(exec.columns, exec.rows),
                         !.closed = @ + 1,
                         !.trace = @ \o <<"cursor.close", "conn.close">>]

\* DatabaseConnection.execute_query, src/app/database.py lines 52-73; conn is
\* what get_connection does, cur what conn.cursor() does, exec what
\* cursor.execute, cursor.description and cursor.fetchall do
execute_query(q, conn, cur, exec) ==
    LET tried == [q EXCEPT !.got_conn = Append(@, conn), !.trace = Append(@, "connect")]
        connected == [tried EXCEPT !.opened = @ + 1, !.trace = Append(@, "cursor")]
        ran == [connected EXCEPT !.executed = Append(@, q.sql_query),
                                 !.got_exec = Append(@, exec),
                                 !.closed = @ + 1,
                                 !.trace = @ \o <<"cursor_done", "execute",
                                                  "cursor.close", "conn.close">>]
    IN  IF conn = "fail" THEN Propagate(tried, "refused")
        ELSE IF cur = "fail" THEN Propagate(connected, "no cursor")
        ELSE IF ~exec.ok THEN Propagate(ran, "error")
        ELSE [ran EXCEPT !.pc = "done", !.returned = "rows",
                         !.results = RowDicts(exec.columns, exec.rows)]

(***************************************************************************)
(* The actions.  A handler runs on the event loop from one await to the    *)
(* next; the handlers of different requests interleave at the awaits.      *)
(***************************************************************************)
Swap(q, q2) == reqs' = (reqs (-) SetToBag({q})) (+) SetToBag({q2})

Serving == BagToSet(reqs)

Admit(q) ==
    /\ BagCardinality(reqs) < NumReq
    /\ reqs' = reqs (+) SetToBag({q})

\* POST /query arrives: the SQL prompt is posted to the model service
ProcessQuery ==
    /\ \E in \in Questions :
          Admit([NewRequest("query", in[1], in[2]) EXCEPT
                    !.pc = "gen_wait", !.trace = <<"gen_call">>])
    /\ UNCHANGED config

GenerateSqlReply ==
    /\ \E q \in Serving : \E out \in GenOutcomes :
          /\ q.pc = "gen_wait"
          /\ Swap(q, generate_sql_with_ollama(q, out))
    /\ UNCHANGED config

ExecuteSqlQuery ==
    /\ \E q \in Serving : \E conn \in ConnectOutcomes : \E exec \in ExecOutcomes :
          /\ q.pc = "execute"
          /\ Swap(q, execute_sql_query(q, conn, exec))
    /\ UNCHANGED config

GenerateAiResponseCall ==
    /\ \E q \in Serving :
          /\ q.pc = "narrate"
          /\ Swap(q, generate_ai_response_call(q))
    /\ UNCHANGED config

GenerateAiResponseReply ==
    /\ \E q \in Serving : \E out \in NarrOutcomes :
          /\ q.pc = "narr_wait"
          /\ Swap(q, generate_ai_response(q, out))
    /\ UNCHANGED config

\* GET /health arrives
HealthCheckCall ==
    /\ \E conn \in ConnectOutcomes :
          Admit(health_check_call(NewRequest("health", "", ""), conn))
    /\ UNCHANGED config

HealthCheckReply ==
    /\ \E q \in Serving : \E tags \in TagsOutcomes :
          /\ q.kind = "health" /\ q.pc = "tags_wait"
          /\ Swap(q, health_check(q, tags))
    /\ UNCHANGED config

\* db.test_connection() is called
TestConnection ==
    /\ \E conn \in ConnectOutcomes : \E run \in ExecOutcomes :
          /\ run.rows = <<>>
          /\ Admit(test_connection(NewRequest("test_connection", "", ""), conn, run))
    /\ UNCHANGED config

\* ollama.is_healthy() is called: GET /api/tags is sent
IsHealthyCall ==
    /\ Admit([NewRequest("is_healthy", "", "") EXCEPT !.pc = "tags_wait"])
    /\ UNCHANGED config

IsHealthyReply ==
    /\ \E q \in Serving : \E tags \in TagsOutcomes :
          /\ q.kind = "is_healthy" /\ q.pc = "tags_wait"
          /\ Swap(q, is_healthy(q, tags))
    /\ UNCHANGED config

\* clean_sql_syntax(sql) is called and returns
CleanSqlSyntax ==
    /\ \E sql \in SqlInputs :
          Admit([NewRequest("clean_sql_syntax", "", "") EXCEPT
                    !.pc = "done", !.sql_raw = sql,
                    !.sql_query = CleanedSql[sql], !.returned = "str"])
    /\ UNCHANGED config

\* ollama_client._parse_response(response) is called and returns or raises
ParseResponse ==
    /\ \E response \in Responses :
          LET out == ParsedResponse[response]
          IN  Admit([NewRequest("_parse_response", "", "") EXCEPT
                        !.pc = "done", !.ai_response = response[2],
                        !.sql_query = out.sql_query,
                        !.explanation = out.explanation,
                        !.trace = out.trace, !.returned = out.returned])
    /\ UNCHANGED config

\* GET /schema arrives; the handler has no await
GetSchema ==
    /\ \E conn \in ConnectOutcomes : \E exec \in SchemaOutcomes :
          Admit(get_schema(NewRequest("schema", "", ""), conn, exec))
    /\ UNCHANGED config

\* db.execute_query(query) is called
ExecuteQuery ==
    /\ \E query \in QueryStatements : \E conn \in ConnectOutcomes :
       \E cur \in ConnectOutcomes : \E exec \in QueryOutcomes :
          Admit(execute_query([NewRequest("execute_query", "", "") EXCEPT
                                  !.sql_query = query], conn, cur, exec))
    /\ UNCHANGED config

\* the response (or the return value) is handed over and the locals are dropped
Deliver ==
    /\ \E q \in Serving :
          /\ q.pc = "done"
          /\ reqs' = reqs (-) SetToBag({q})
    /\ UNCHANGED config

Init ==
    /\ reqs = EmptyBag
    /\ config = [ OLLAMA_URL |-> "http://172.19.0.2:11434",
                  OLLAMA_MODEL |-> "qwen2.5:1.5b",
                  DB_SERVER |-> "sqlserver", DB_PORT |-> "1433",
                  DB_NAME |-> "JOBORDER" ]

Next ==
    \/ ProcessQuery
    \/ GenerateSqlReply
    \/ ExecuteSqlQuery
    \/ GenerateAiResponseCall
    \/ GenerateAiResponseReply
    \/ HealthCheckCall
    \/ HealthCheckReply
    \/ TestConnection
    \/ IsHealthyCall
    \/ IsHealthyReply
    \/ GetSchema
    \/ ExecuteQuery
    \/ CleanSqlSyntax
    \/ ParseResponse
    \/ Deliver

Spec == Init /\ [][Next]_vars

(***************************************************************************)
(* Properties of the /query and /health paths and of the probes.           *)
(***************************************************************************)
Queries == { q \in Serving : q.kind = "query" }

Has(q, event) == \E i \in 1..Len(q.trace) : q.trace[i] = event

Count(q, event) == Cardinality({ i \in 1..Len(q.trace) : q.trace[i] = event })

\* the upper-cased text holds one of the seven keywords
NamesKeyword(sql) ==
    \E k \in 1..Len(dangerous_keywords) : Contains(Upper(sql), dangerous_keywords[k])

\* the statements the replies lead to that hold a keyword, computed once
KeywordStatements == { s \in { Parsed[r][2] : r \in DOMAIN Parsed } : NamesKeyword(s) }

HoldsKeyword(sql) ==
    IF sql \in { Parsed[r][2] : r \in DOMAIN Parsed } THEN sql \in KeywordStatements
    ELSE NamesKeyword(sql)

\* C1: a statement of /query reaches cursor.execute only if its upper-cased
\* text holds none of the seven keywords; a statement that holds one ends the
\* request with status 400, and no connection is opened for the request.
C1_Denylist ==
    \A q \in Queries :
        /\ \A i \in 1..Len(q.executed) : ~HoldsKeyword(q.executed[i])
        /\ (Has(q, "denylist") /\ HoldsKeyword(q.sql_query))
              => /\ q.pc = "done" /\ q.status = 400
                 /\ q.got_conn = <<>> /\ q.opened = 0 /\ q.executed = <<>>

\* one request was refused for a keyword written in lower case, another one
\* was executed
C1_Witness ==
    /\ \E q \in Queries :
          /\ Has(q, "denylist") /\ HoldsKeyword(q.sql_query) /\ q.status = 400
          /\ ~Contains(q.sql_query, "DELETE") /\ Contains(Upper(q.sql_query), "DELETE")
    /\ \E q \in Queries : q.executed # <<>>

\* the statement begins with the word SELECT
IsSelect(sql) == AtCI(sql, 1, "SELECT") /\ Boundary(sql, 7)

\* C2: no statement other than a SELECT is ever passed to the database by
\* /query, whatever the model service replies.
C2_OnlySelect ==
    \A q \in Queries : \A i \in 1..Len(q.executed) : IsSelect(q.executed[i])

\* the steps of process_query, in the order of the source
Steps ==
    << "gen_call", "gen_done", "clean", "denylist", "connect", "connect_done",
       "execute", "execute_done", "narr_call", "narr_done", "respond" >>

\* the outbound calls of q that were issued and have not returned
InFlight(q) ==
    { c \in { <<"gen_call", "gen_done">>, <<"connect", "connect_done">>,
              <<"execute", "execute_done">>, <<"narr_call", "narr_done">> } :
        Count(q, c[1]) > Count(q, c[2]) }

\* C3: the steps of a /query request happen in the order of Steps, each one
\* after the previous one has completed (the response may follow any completed
\* step), and a request never has two outbound calls in flight.
C3_FixedOrder ==
    \A q \in Queries :
        /\ \E n \in 0..Len(Steps) :
              \/ q.trace = SubSeq(Steps, 1, n)
              \/ q.trace = Append(SubSeq(Steps, 1, n), "respond")
        /\ Cardinality(InFlight(q)) <= 1

\* a request went through every step
C3_Witness == \E q \in Queries : q.trace = Steps /\ q.pc = "done"

Done(q) == q.pc = "done"

\* the rows of a cursor as the handlers return them
Fetched(exec) == RowDicts(exec.columns, exec.rows)

\* the outbound calls of q that failed
GenFailed(q) == \E i \in 1..Len(q.got_gen) : q.got_gen[i].status # 200

ConnectFailed(q) == \E i \in 1..Len(q.got_conn) : q.got_conn[i] = "fail"

ExecuteFailed(q) == \E i \in 1..Len(q.got_exec) : ~q.got_exec[i].ok

NarrationFailed(q) == \E i \in 1..Len(q.got_narr) : q.got_narr[i].status # 200

\* the texts generate_ai_response returns in place of a narration
IsFallbackText(text) ==
    \/ text = "Unable to generate AI response at this time."
    \/ At(text, 1, "AI response failed: ")

\* C4 as stated: a request with a failed outbound call ends with an error
\* response, never with a success response.
C4_FailureIsError ==
    \A q \in Queries :
        (Done(q) /\ (GenFailed(q) \/ ConnectFailed(q) \/ ExecuteFailed(q)
                        \/ NarrationFailed(q)))
            => q.status \in {400, 500}

\* C4, amended: a failure of the SQL-generation call, of the connect or of the
\* execute ends the request with an error response and without a narration
\* call; a failure of the narration call ends it with a success response that
\* carries all rows of the result and a fallback text in place of the narration.
C4_FailureIsErrorButNarration ==
    \A q \in Queries :
        Done(q) =>
            /\ (GenFailed(q) \/ ConnectFailed(q) \/ ExecuteFailed(q))
                  => /\ q.status \in {400, 500}
                     /\ q.results = <<>> /\ q.ai_response = "" /\ q.got_narr = <<>>
            /\ NarrationFailed(q)
                  => /\ q.status = 200
                     /\ q.results = Fetched(q.got_exec[1])
                     /\ IsFallbackText(q.ai_response)

\* one request ended as a success although its narration call failed, another
\* one as an error because the database refused the connection
C4_Witness ==
    /\ \E q \in Queries :
          Done(q) /\ NarrationFailed(q) /\ q.status = 200 /\ q.results # <<>>
    /\ \E q \in Queries : Done(q) /\ ConnectFailed(q) /\ q.status = 400

\* C5: within a /query request the SQL-generation call, the connect, the
\* execute and the narration call are each issued at most once, whatever
\* their outcome.
C5_NoRetry ==
    \A q \in Queries :
        /\ Count(q, "gen_call") <= 1 /\ Len(q.got_gen) <= 1
        /\ Count(q, "connect") <= 1 /\ Len(q.got_conn) <= 1
        /\ Count(q, "execute") <= 1 /\ Len(q.executed) <= 1
        /\ Count(q, "narr_call") <= 1 /\ Len(q.got_narr) <= 1

\* a narration call got no reply, an execute failed, and both requests ended
C5_Witness ==
    /\ \E q \in Queries :
          Done(q) /\ q.got_narr = << [status |-> 0, text |-> ""] >>
                  /\ Count(q, "narr_call") = 1
    /\ \E q \in Queries : Done(q) /\ ExecuteFailed(q) /\ Count(q, "execute") = 1

\* what the QueryResponse, or the error, of q must be when its question, its
\* language and the replies to its own calls decide it alone: process_query
\* run from start to end on these values
First(replies, none) == IF replies = <<>> THEN none ELSE replies[1]

NoReply == [status |-> -1, text |-> ""]

Failure(status, detail) ==
    [ status |-> status, detail |-> detail, sql_query |-> "", explanation |-> "",
      results |-> <<>>, ai_response |-> "" ]

\* the statements the replies lead to that execute_sql_query refuses, and the
\* result sets generate_ai_response cannot format, computed once
RefusedKeyword == [r \in DOMAIN Parsed |-> DetectedKeyword(Parsed[r][2])]

Unformattable ==
    { x \in ExecOutcomes : x.ok /\ FormatRaises(RowDicts(x.columns, x.rows)) }

OwnOutcome(q) ==
    LET gen == First(q.got_gen, NoReply)
        conn == First(q.got_conn, "none")
        exec == First(q.got_exec, [ok |-> FALSE, columns |-> <<>>, rows |-> <<>>])
        narr == First(q.got_narr, NoReply)
    IN  IF gen.status = 0
        THEN Failure(500, "AI service unavailable: no reply")
        ELSE IF gen.status # 200
        THEN Failure(500, "AI service unavailable: 500: Failed to generate SQL with Ollama")
        ELSE IF RefusedKeyword[gen.text] # ""
        THEN Failure(400, "Dangerous SQL keyword detected: " \o RefusedKeyword[gen.text])
        ELSE IF conn # "ok"
        THEN Failure(400, "SQL execution failed: 500: Database connection failed: refused")
        ELSE IF ~exec.ok
        THEN Failure(400, "SQL execution failed: error")
        ELSE IF exec \in Unformattable
        THEN Failure(500, "Query processing failed: format")
        ELSE [ status |-> 200, detail |-> "",
               sql_query |-> Parsed[gen.text][2],
               explanation |-> Parsed[gen.text][3],
               results |-> Fetched(exec),
               ai_response |->
                   IF narr.status = 200 THEN Strip(narr.text)
                   ELSE IF narr.status = 0 THEN "AI response failed: no reply"
                   ELSE "Unable to generate AI response at this time." ]

\* what q hands to its client
Outcome(q) ==
    [ status |-> q.status, detail |-> q.detail,
      sql_query |-> IF q.status = 200 THEN q.sql_query ELSE "",
      explanation |-> IF q.status = 200 THEN q.explanation ELSE "",
      results |-> IF q.status = 200 THEN q.results ELSE <<>>,
      ai_response |-> q.ai_response ]

\* a step takes at most one request from the ones being served and puts at
\* most one back
OneRequestStep ==
    /\ BagCardinality(reqs (-) reqs') <= 1
    /\ BagCardinality(reqs' (-) reqs) <= 1

\* C6: however the requests interleave, what a /query request hands to its
\* client is decided by its own question and language and by the replies to
\* its own calls; a step touches one request only, and the configuration is
\* never modified.
C6_Independent ==
    /\ [](\A q \in Queries : Done(q) => Outcome(q) = OwnOutcome(q))
    /\ [][OneRequestStep /\ config' = config]_vars

\* two requests are served at once: one has executed a statement the other
\* one would be refused for, and has ended
C6_Witness ==
    \E q \in Queries : \E o \in Queries :
        /\ Done(q) /\ q.status = 200
        /\ o.pc = "execute" /\ RefusedKeyword[o.got_gen[1].text] # ""

\* clean_sql_syntax of the SQL text taken from each reply, computed once
Cleaned == [r \in ModelReplies |-> clean_sql_syntax(ExtractSql(r))]

\* C7: every statement /query executes is clean_sql_syntax of the SQL text
\* extracted from the reply of the model service, on the marker path and on
\* the fallback path alike.
C7_ExecutedIsCleaned ==
    \A q \in Queries : \A i \in 1..Len(q.executed) :
        /\ q.got_gen # <<>>
        /\ q.executed[i] = Cleaned[q.got_gen[1].text]

\* a statement of the marker path and one of the fallback path were executed,
\* and cleaning had changed both
C7_Witness ==
    /\ \E q \in Queries :
          /\ q.executed # <<>> /\ HasMarkers(q.got_gen[1].text)
          /\ q.executed[1] # q.sql_raw
    /\ \E q \in Queries :
          /\ q.executed # <<>> /\ ~HasMarkers(q.got_gen[1].text)
          /\ q.executed[1] # q.sql_raw

\* the statement of q was executed and its rows were fetched
ExecutedOk(q) == q.got_exec # <<>> /\ q.got_exec[1].ok

\* C8: the narration call is made exactly when the statement was executed
\* successfully, zero rows included.
C8_NarrationIffExecuted ==
    \A q \in Queries : Done(q) => (Has(q, "narr_call") <=> ExecutedOk(q))

Healths == { q \in Serving : q.kind = "health" }

\* C9: /health always ends with a HealthResponse: database is ok exactly when
\* the connection was opened, ollama is ok exactly when GET /api/tags
\* answered 200, status is ok exactly when both are; GET /api/tags is sent
\* whatever the database check gave.
C9_Health ==
    \A q \in Healths :
        /\ q.got_conn # <<>>
        /\ Done(q) =>
              /\ q.status = 200 /\ q.detail = ""
              /\ q.got_tags # <<>>
              /\ {q.db_status, q.ollama_status, q.overall_status} \subseteq {"ok", "error"}
              /\ q.db_status = "ok" <=> q.got_conn = << "ok" >>
              /\ q.ollama_status = "ok" <=> q.got_tags = << 200 >>
              /\ q.overall_status = "ok"
                    <=> (q.db_status = "ok" /\ q.ollama_status = "ok")

\* the database refused the connection, GET /api/tags answered 200
C9_Witness ==
    \E q \in Healths :
        /\ Done(q) /\ q.got_conn = << "fail" >> /\ q.got_tags = << 200 >>
        /\ q.db_status = "error" /\ q.ollama_status = "ok"
        /\ q.overall_status = "error"

Probes == { q \in Serving : q.kind \in {"test_connection", "is_healthy"} }

\* C10: the probes return True or False and never raise: test_connection
\* returns True exactly when the connect and SELECT 1 both succeeded,
\* is_healthy exactly when GET /api/tags answered 200.
C10_Probes ==
    \A q \in Probes :
        Done(q) =>
            /\ q.returned \in {"True", "False"}
            /\ q.kind = "test_connection" =>
                  (q.returned = "True"
                      <=> (q.got_conn = << "ok" >> /\ q.got_exec # <<>>
                              /\ q.got_exec[1].ok /\ q.executed = << "SELECT 1" >>))
            /\ q.kind = "is_healthy" =>
                  (q.returned = "True" <=> q.got_tags = << 200 >>)

\* test_connection returned False because SELECT 1 failed, is_healthy returned
\* False on a 404
C10_Witness ==
    /\ \E q \in Probes :
          /\ q.kind = "test_connection" /\ Done(q) /\ q.returned = "False"
          /\ q.got_conn = << "ok" >> /\ ExecuteFailed(q)
    /\ \E q \in Probes :
          /\ q.kind = "is_healthy" /\ Done(q) /\ q.returned = "False"
          /\ q.got_tags = << 404 >>

\* C11: a /query request whose database connection could not be opened ends
\* with HTTP 500 and a detail that begins with Database connection failed.
C11_ConnectFailureIs500 ==
    \A q \in Queries :
        (Done(q) /\ ConnectFailed(q))
            => q.status = 500 /\ At(q.detail, 1, "Database connection failed")

\* C12: a /query request whose SQL-generation call failed (another status
\* than 200, or no reply) ends at once with HTTP 500, and nothing of the
\* database was touched for it: no connect, no connection, no statement.
C12_GenFailureNoDatabase ==
    \A q \in Queries :
        GenFailed(q) =>
            /\ Done(q) /\ q.status = 500
            /\ At(q.detail, 1, "AI service unavailable")
            /\ q.got_conn = <<>> /\ q.opened = 0 /\ q.executed = <<>>
            /\ ~Has(q, "denylist") /\ ~Has(q, "connect") /\ ~Has(q, "execute")

\* one request ended on a reply with status 500, another one on no reply
C12_Witness ==
    /\ \E q \in Queries : Done(q) /\ q.got_gen = << [status |-> 500, text |-> ""] >>
    /\ \E q \in Queries : Done(q) /\ q.got_gen = << [status |-> 0, text |-> ""] >>

\* C13: generate_ai_response never raises, so a request whose statement was
\* executed successfully ends with a success response, whatever the rows hold.
C13_NarrationNeverRaises ==
    \A q \in Queries :
        (ExecutedOk(q) /\ q.pc \notin {"execute", "narrate", "narr_wait"})
            => Done(q) /\ q.status = 200 /\ q.got_narr # <<>>

\* C14: when the SQL taken from the reply is the empty string, no connection
\* is opened and nothing is executed, and the request ends with an error.
C14_EmptySqlNotSent ==
    \A q \in Queries :
        (Has(q, "clean") /\ q.sql_query = "")
            => /\ q.got_conn = <<>> /\ q.opened = 0 /\ q.executed = <<>>
               /\ Done(q) => q.status \in {400, 500}

\* the requests of the HTTP handlers that open a connection for a statement
Handlers == { q \in Serving : q.kind \in {"query", "schema"} }

\* C15: once execute_sql_query or get_schema has returned or raised, every
\* connection it opened is closed, on the success path and on every failure
\* path.
C15_NoConnectionLeftOpen ==
    \A q \in Handlers :
        q.pc \in {"narrate", "narr_wait", "done"} => q.closed = q.opened

ExecuteQueries == { q \in Serving : q.kind = "execute_query" }

\* the last column of the name c
LastColumn(columns, c) == MaxOf({ i \in 1..Len(columns) : columns[i] = c })

\* C16: when execute_query ends, its cursor and its connection are closed if
\* the cursor was created, whether the statement succeeded or raised; an
\* exception of the statement reaches the caller as it was raised; on success
\* the result has one dictionary per row, in row order, keyed by column name.
C16_ExecuteQuery ==
    \A q \in ExecuteQueries :
        Done(q) =>
            /\ Has(q, "cursor_done")
                  => /\ q.opened = 1 /\ q.closed = 1
                     /\ SubSeq(q.trace, Len(q.trace) - 1, Len(q.trace))
                            = << "cursor.close", "conn.close" >>
                     /\ q.executed = << q.sql_query >>
            /\ ExecuteFailed(q) => q.returned = "raise" /\ q.detail = "error"
            /\ ExecutedOk(q)
                  => /\ q.returned = "rows"
                     /\ Len(q.results) = Len(q.got_exec[1].rows)
                     /\ \A r \in 1..Len(q.results) :
                           /\ DOMAIN q.results[r]
                                 = { q.got_exec[1].columns[i] :
                                       i \in 1..Len(q.got_exec[1].columns) }
                           /\ \A c \in DOMAIN q.results[r] :
                                 q.results[r][c]
                                     = q.got_exec[1].rows[r][
                                           LastColumn(q.got_exec[1].columns, c)]

\* one call ended with the exception of the statement and closed its
\* connection, another one returned two rows of three columns
C16_Witness ==
    /\ \E q \in ExecuteQueries :
          Done(q) /\ ExecuteFailed(q) /\ q.closed = 1 /\ q.returned = "raise"
    /\ \E q \in ExecuteQueries :
          /\ Done(q) /\ q.returned = "rows" /\ Len(q.results) = 2
          /\ Len(q.got_exec[1].columns) = 3 /\ q.closed = 1

\* a step that changes a /query request keeps its question and its language
KeepsQuestion ==
    \A q2 \in BagToSet(reqs' (-) reqs) :
        (q2.kind = "query" /\ q2.pc # "gen_wait")
            => \E q1 \in BagToSet(reqs (-) reqs') :
                  q1.question = q2.question /\ q1.language = q2.language

Cleans == { q \in Serving : q.kind = "clean_sql_syntax" }

\* the text holds a LIMIT clause: the word LIMIT, then a number, or an
\* offset, a comma and a number
HasLimitClause(s) == \E i \in 1..Len(s) : LimitAt(s, i) # <<>>

\* the number n of the first LIMIT clause of s
LimitNumber(s) == LimitAt(s, MinOf({ i \in 1..Len(s) : LimitAt(s, i) # <<>> }))[2]

\* the positions of the keyword SELECT
Selects(s) == { i \in 1..Len(s) : SelectEnd(s, i) > 0 }

\* the word TOP and a number follow the SELECT at i: the number, "" if none
TopNumber(s, i) ==
    LET k == SkipSpace(s, i + 6)
        d == SkipSpace(s, k + 3)
    IN  IF k > i + 6 /\ AtCI(s, k, "TOP") /\ d > k + 3
        THEN SubSeq(s, d, SkipDigits(s, d) - 1) ELSE ""

\* C18: a statement with a LIMIT clause comes back without a LIMIT clause and
\* with TOP n directly after its SELECT; a statement without a LIMIT clause
\* comes back with no TOP it did not have.
C18_LimitToTop ==
    \A q \in Cleans :
        IF HasLimitClause(q.sql_raw)
        THEN /\ ~HasLimitClause(q.sql_query)
             /\ Selects(q.sql_query) # {}
             /\ TopNumber(q.sql_query, MinOf(Selects(q.sql_query)))
                    = LimitNumber(q.sql_raw)
        ELSE \A i \in Selects(q.sql_query) :
                TopNumber(q.sql_query, i) # ""
                    => \E j \in Selects(q.sql_raw) :
                          TopNumber(q.sql_raw, j) = TopNumber(q.sql_query, i)

\* func(col) at i, with or without whitespace around the parentheses
BareAggregateAt(s, i, func, col) ==
    LET p == SkipSpace(s, i + Len(func))
        a == SkipSpace(s, p + 1)
        z == SkipSpace(s, a + Len(col))
    IN  /\ AtCI(s, i, func) /\ Boundary(s, i) /\ Ch(s, p) = "("
        /\ AtCI(s, a, col) /\ Boundary(s, a + Len(col)) /\ Ch(s, z) = ")"

\* col at i is the left side of a comparison with an integer literal or with
\* another numeric column
BareComparisonAt(s, i, col) ==
    \/ CompareNumberAt(s, i, col) # <<>>
    \/ \E c2 \in 1..Len(numeric_columns) :
          /\ numeric_columns[c2] # col
          /\ CompareColumnAt(s, i, col, numeric_columns[c2]) # <<>>

\* CAST(CAST( at i
DoubleCastAt(s, i) ==
    /\ AtCI(s, i, "CAST") /\ Ch(s, SkipSpace(s, i + 4)) = "("
    /\ AtCI(s, SkipSpace(s, SkipSpace(s, i + 4) + 1), "CAST")
    /\ Ch(s, SkipSpace(s, SkipSpace(s, SkipSpace(s, i + 4) + 1) + 4)) = "("

\* C19: in the statement clean_sql_syntax returns, no SUM, AVG, MAX or MIN is
\* applied to a bare numeric column, no bare numeric column is the left side
\* of a comparison with an integer literal or with another numeric column,
\* and no CAST is wrapped in a second CAST.
C19_CastInjection ==
    \A q \in Cleans : \A i \in 1..Len(q.sql_query) :
        /\ ~DoubleCastAt(q.sql_query, i)
        /\ \A c \in 1..Len(numeric_columns) :
              /\ ~BareComparisonAt(q.sql_query, i, numeric_columns[c])
              /\ \A func \in {"SUM", "AVG", "MAX", "MIN"} :
                    ~BareAggregateAt(q.sql_query, i, func, numeric_columns[c])

\* the opening parentheses of the aggregate calls of text
AggregateOpens(text) ==
    { FuncParenAt(text, func, j) :
        func \in {"SUM", "AVG", "COUNT", "MAX", "MIN"}, j \in 1..Len(text) } \ {0}

\* the parenthesis opened at p is not closed before position i
InsideCall(text, p, i) ==
    /\ p < i
    /\ \A k \in (p + 1)..i :
          CountChar(text, "(", p, k - 1) > CountChar(text, ")", p, k - 1)

\* the columns of JOBORDER that text names outside every aggregate call
OutsideAggregates(text) ==
    { col \in joborder_columns :
        \E i \in 1..Len(text) :
            /\ AtCI(text, i, col) /\ Boundary(text, i) /\ Boundary(text, i + Len(col))
            /\ \A p \in AggregateOpens(text) : ~InsideCall(text, p, i) }

\* the names listed in the GROUP BY clause of sql, in capitals
GroupByListed(sql) ==
    { Upper(name) :
        name \in existing_group_by(Strip(SubSeq(sql, GroupByMatch(sql)[3],
                                                 GroupByMatch(sql)[4] - 1))) }

\* C20: when the statement clean_sql_syntax returns has a GROUP BY clause,
\* every JOBORDER column of its SELECT list that stands outside an aggregate
\* call is listed in the GROUP BY clause.
C20_GroupByComplete ==
    \A q \in Cleans :
        (HasGroupBy(q.sql_query) /\ GroupByMatch(q.sql_query) # <<>>
            /\ SelectPart(q.sql_query) # <<>>)
            => OutsideAggregates(SelectContent(q.sql_query))
                   \subseteq GroupByListed(q.sql_query)

(***************************************************************************)
(* Properties of OllamaClient._parse_response: its argument is             *)
(* ai_response, the method taken is its trace, its return values are       *)
(* sql_query and explanation.                                              *)
(***************************************************************************)
Parses == { q \in Serving : q.kind = "_parse_response" }

\* the method the reply calls for, by priority
MethodFor(text) ==
    IF Contains(text, "SQL:") /\ Contains(text, "EXPLANATION:") THEN "Method 1"
    ELSE IF \E i \in 1..Len(text) : AtCI(text, i, Fence \o "SQL") THEN "Method 2"
    ELSE "Method 3"

\* a stripped line that is not blank and not a code-fence line
SqlTextLine(line) == line # "" /\ ~At(line, 1, Fence)

\* the text before 'EXPLANATION:' without the marker 'SQL:' and without the
\* code-fence lines
TextBeforeExplanation(text) ==
    Strip(JoinLines(SelectSeq(
        StrippedLines(Replace(BeforeMarker(text, "EXPLANATION:"), "SQL:", "")),
        SqlTextLine)))

\* positions a..b of text lie inside a fenced block: after a fence tagged sql
\* and before the fence that closes it
InsideFence(text, a, b) ==
    \E i \in 1..Len(text) :
        /\ AtCI(text, i, Fence \o "SQL")
        /\ i + 6 <= a
        /\ Find(text, Fence, i + 6) = 0 \/ b < Find(text, Fence, i + 6)

\* <<a, b>> for every line of text: its first and last position
LineSpans(text) ==
    { span \in (1..(Len(text) + 1)) \X (0..Len(text)) :
        /\ span[1] <= span[2] + 1
        /\ span[1] = 1 \/ Ch(text, span[1] - 1) = "\n"
        /\ span[2] = Len(text) \/ Ch(text, span[2] + 1) = "\n"
        /\ \A k \in span[1]..span[2] : Ch(text, k) # "\n" }

\* sql is made of the lines of text inside its fenced blocks: every line of
\* sql stands inside a block, and every line inside a block is in sql
FencedLines(text, sql) ==
    /\ sql # "" =>
          \A k \in 1..Len(SplitLines(sql)) :
              \E a \in 1..(Len(text) + 1) :
                  /\ At(text, a, SplitLines(sql)[k])
                  /\ InsideFence(text, a, a + Len(SplitLines(sql)[k]) - 1)
    /\ \A span \in LineSpans(text) :
          (/\ InsideFence(text, span[1], span[2])
           /\ Strip(SubSeq(text, span[1], span[2])) # "")
              => Contains(sql, Strip(SubSeq(text, span[1], span[2])))

\* a stripped line that holds a SQL keyword
KeywordLine(line) == \E keyword \in SqlKeywords : Contains(Upper(line), keyword)

\* the lines of text that hold a SQL keyword
KeywordLines(text) ==
    Strip(JoinLines(SelectSeq(StrippedLines(text), KeywordLine)))

\* C21: every call of _parse_response returns a pair (sql, explanation) and
\* raises nothing; it takes exactly one method, the first that applies of:
\* (1) the reply holds both 'SQL:' and 'EXPLANATION:', and the SQL is the text
\* before 'EXPLANATION:' without the marker and the code-fence lines; (2) the
\* reply holds a fence tagged sql, and the SQL is the lines inside the fenced
\* block; (3) the SQL is the lines that hold a SQL keyword, and the
\* explanation is not empty.
C21_ParseResponse ==
    \A q \in Parses :
        /\ q.returned = "pair"
        /\ q.trace = << MethodFor(q.ai_response) >>
        /\ Has(q, "Method 1") => q.sql_query = TextBeforeExplanation(q.ai_response)
        /\ Has(q, "Method 2") => FencedLines(q.ai_response, q.sql_query)
        /\ Has(q, "Method 3") =>
              /\ q.sql_query = KeywordLines(q.ai_response)
              /\ q.explanation # ""

=============================================================================
